---------------------------- MODULE Spec2Model ----------------------------
(***************************************************************************)
(* A model of booky: the word classifier (kind.rs), the streaming parser   *)
(* (parse.rs), the word tally (tally.rs), the lexicon (lex.rs) and the     *)
(* lexeme builder (word.rs).                                               *)
(*                                                                         *)
(* A character is a one-character string for ASCII and the string          *)
(* "U+XXXX" for a character outside ASCII.  A Rust string is the sequence  *)
(* of its characters.  Str turns an ASCII literal into such a sequence.    *)
(***************************************************************************)
EXTENDS Integers, Sequences, FiniteSets, TLC

VARIABLES
    word,        \* classifier: the &str handed to Kind::from
    kind,        \* classifier: the Kind returned
    words,       \* WordTally.words: HashMap<String, WordEntry>
    dict,        \* the dictionary handed to the tally's passes (its folded keys)
    last,        \* the last tally operation, its arguments and the tally before it
    hist,        \* the tally_word calls made so far, in order
    nparsed,     \* the number of parse_text calls made so far
    line,        \* lexeme builder: the line handed to Lexeme::try_from
    lexeme,      \* lexeme builder: the Result returned
    irr,         \* irregular forms: a lemma, a token and what decoding and encoding gave
    lex,         \* the Lexicon: words and the forms index
    input,       \* parser: what the reader was created with
    bytes,       \* parser: the bytes of the reader not yet read
    text,        \* Parser.text: the pending text
    chunks,      \* Parser.chunks: the processed chunks not yet yielded
    yielded,     \* parser: the items next() has returned so far, in order
    ret,         \* parser: what the last call of next() returned and read
    split,       \* contractions::split: its argument, work stack and result
    once,        \* LEXICON: the state of the LazyLock and the runs of make_builtin
    threads,     \* the threads that call lex::builtin(): their position and what they saw
    splitter,    \* WordSplitter: the bytes left, the next character, the items yielded
    handler,     \* chunk::parse_text: the bytes left, the pending chunk, the handler calls
    pc           \* which step each specification has reached

-----------------------------------------------------------------------------
(* Strings *)

RECURSIVE Str(_)
Str(s) == IF Len(s) = 0 THEN <<>> ELSE <<Head(s)>> \o Str(Tail(s))

\* The words of at most n characters over the alphabet A.
WordsUpTo(A, n) == UNION {[1..k -> A] : k \in 0..n}

Last(w) == w[Len(w)]

StartsWith(w, p) == Len(p) <= Len(w) /\ SubSeq(w, 1, Len(p)) = p

EndsWith(w, s) == Len(s) <= Len(w) /\ SubSeq(w, Len(w) - Len(s) + 1, Len(w)) = s

\* str::strip_suffix, for a suffix the word is known to end with
StripSuffix(w, s) == SubSeq(w, 1, Len(w) - Len(s))

\* str::strip_prefix, for a prefix the word is known to start with
StripPrefix(w, p) == SubSeq(w, Len(p) + 1, Len(w))

\* chars().filter(P).count()
CountChars(w, S) == Cardinality({i \in DOMAIN w : w[i] \in S})

\* str::contains(char)
ContainsChar(w, c) == \E i \in DOMAIN w : w[i] = c

RECURSIVE Concat(_)
Concat(ws) == IF ws = <<>> THEN <<>> ELSE Head(ws) \o Concat(Tail(ws))

\* the concatenation of ws[lo], ..., ws[hi], by halves
RECURSIVE ConcatRange(_, _, _)
ConcatRange(ws, lo, hi) ==
    IF lo > hi THEN <<>>
    ELSE IF lo = hi THEN ws[lo]
    ELSE ConcatRange(ws, lo, (lo + hi) \div 2) \o ConcatRange(ws, (lo + hi) \div 2 + 1, hi)


\* the least index of the word whose character is in S (0 when there is none)
FirstIn(w, S) ==
    IF \E i \in DOMAIN w : w[i] \in S
    THEN CHOOSE i \in DOMAIN w : w[i] \in S /\ \A j \in 1..(i - 1) : w[j] \notin S
    ELSE 0

\* str::split(char)
RECURSIVE SplitChar(_, _)
SplitChar(w, c) ==
    LET i == FirstIn(w, {c})
    IN  IF i = 0 THEN <<w>>
        ELSE <<SubSeq(w, 1, i - 1)>> \o SplitChar(SubSeq(w, i + 1, Len(w)), c)

\* str::split("--"): matches are found left to right and do not overlap
RECURSIVE SplitDoubleDash(_)
SplitDoubleDash(w) ==
    LET hits == {i \in 1..(Len(w) - 1) : w[i] = "-" /\ w[i + 1] = "-"}
    IN  IF hits = {} THEN <<w>>
        ELSE LET i == CHOOSE h \in hits : \A g \in hits : h <= g
             IN  <<SubSeq(w, 1, i - 1)>> \o SplitDoubleDash(SubSeq(w, i + 2, Len(w)))

\* str::trim_start_matches(P), P given as the set of matching characters of w
RECURSIVE TrimStart(_, _)
TrimStart(w, P) == IF w # <<>> /\ Head(w) \in P THEN TrimStart(Tail(w), P) ELSE w

\* str::trim_end_matches(P)
RECURSIVE TrimEnd(_, _)
TrimEnd(w, P) ==
    IF w # <<>> /\ Last(w) \in P THEN TrimEnd(SubSeq(w, 1, Len(w) - 1), P) ELSE w

\* the characters of the word
Chars(w) == {w[i] : i \in DOMAIN w}

\* the sequences that list each element of the set S once
RECURSIVE Orders(_)
Orders(S) ==
    IF S = {} THEN {<<>>}
    ELSE UNION {{<<x>> \o o : o \in Orders(S \ {x})} : x \in S}

\* a map without the key k / with the key k bound to v
MapRemove(m, k) == [x \in (DOMAIN m) \ {k} |-> m[x]]

MapInsert(m, k, v) == [x \in (DOMAIN m) \cup {k} |-> IF x = k THEN v ELSE m[x]]

EmptyMap == <<>>

\* F applied to the value of v, which is evaluated once
With(v, F(_)) == CHOOSE r \in {F(x) : x \in {v}} : TRUE

-----------------------------------------------------------------------------
(* Characters: the part of the Unicode tables the model's alphabets use *)

AsciiLower == {"a", "b", "c", "d", "e", "f", "g", "h", "i", "j", "k", "l", "m",
               "n", "o", "p", "q", "r", "s", "t", "u", "v", "w", "x", "y", "z"}

AsciiUpper == {"A", "B", "C", "D", "E", "F", "G", "H", "I", "J", "K", "L", "M",
               "N", "O", "P", "Q", "R", "S", "T", "U", "V", "W", "X", "Y", "Z"}

AsciiDigit == {"0", "1", "2", "3", "4", "5", "6", "7", "8", "9"}

AsciiPunct == {"-", ".", ",", "!", "?", "'", ":", "\""}

AsciiSpace == {" ", "\t", "\n"}

\* e-acute, c-cedilla, ae and oe ligatures, i-diaeresis: lowercase letters
NonAsciiLower == {"U+00E9", "U+00E7", "U+00E6", "U+0153", "U+00EF"}

\* E-acute: an uppercase letter
NonAsciiUpper == {"U+00C9"}

\* ARABIC-INDIC DIGIT THREE: numeric, not an ASCII digit
NonAsciiDigit == {"U+0663"}

APOSTROPHE == "'"

MODIFIER_LETTER_APOSTROPHE == "U+02BC"

RIGHT_SINGLE_QUOTATION_MARK == "U+2019"

FULLWIDTH_APOSTROPHE == "U+FF07"

ZERO_WIDTH_SPACE == "U+200B"

BOM == "U+FEFF"

\* U+001B: a control character that is not whitespace
ESCAPE == "U+001B"

\* a character of four bytes, neither alphanumeric nor a boundary
GRINNING_FACE == "U+1F600"

is_ascii(c) ==
    c \in AsciiLower \cup AsciiUpper \cup AsciiDigit \cup AsciiPunct \cup AsciiSpace
          \cup {ESCAPE}

is_ascii_digit(c) == c \in AsciiDigit

\* U+02BC is a letter (category Lm); the other three apostrophes are punctuation
is_alphabetic(c) ==
    c \in AsciiLower \cup AsciiUpper \cup NonAsciiLower \cup NonAsciiUpper
          \cup {MODIFIER_LETTER_APOSTROPHE}

is_numeric(c) == c \in AsciiDigit \cup NonAsciiDigit

is_alphanumeric(c) == is_alphabetic(c) \/ is_numeric(c)

is_uppercase(c) == c \in AsciiUpper \cup NonAsciiUpper

is_lowercase(c) == c \in AsciiLower \cup NonAsciiLower

is_whitespace(c) == c \in AsciiSpace

is_control(c) == c \in {"\t", "\n", ESCAPE}

UpperLetters == Str("ABCDEFGHIJKLMNOPQRSTUVWXYZ")

LowerLetters == Str("abcdefghijklmnopqrstuvwxyz")

\* char::to_lowercase (one character for every character of the model)
to_lowercase_char(c) ==
    IF c \in AsciiUpper
    THEN LowerLetters[CHOOSE i \in DOMAIN UpperLetters : UpperLetters[i] = c]
    ELSE IF c = "U+00C9" THEN "U+00E9" ELSE c

\* char::to_ascii_lowercase
to_ascii_lowercase(c) ==
    IF c \in AsciiUpper
    THEN LowerLetters[CHOOSE i \in DOMAIN UpperLetters : UpperLetters[i] = c]
    ELSE c

\* str::to_lowercase
to_lowercase(w) == [i \in DOMAIN w |-> to_lowercase_char(w[i])]

\* the number of bytes of the character's UTF-8 encoding
utf8_len(c) ==
    IF is_ascii(c) THEN 1
    ELSE IF c \in NonAsciiLower \cup NonAsciiUpper \cup NonAsciiDigit
                  \cup {MODIFIER_LETTER_APOSTROPHE} THEN 2
    ELSE IF c = GRINNING_FACE THEN 4
    ELSE 3

\* str::len: the length in bytes
RECURSIVE str_len(_)
str_len(w) == IF w = <<>> THEN 0 ELSE utf8_len(Head(w)) + str_len(Tail(w))

\* an ASCII literal in which ' stands for U+2019, as the contraction tables write it
StrQ(s) == LET w == Str(s) IN [i \in DOMAIN w |-> IF w[i] = "'" THEN RIGHT_SINGLE_QUOTATION_MARK ELSE w[i]]

-----------------------------------------------------------------------------
(* kind.rs *)

Kinds == <<"Lexicon", "Foreign", "Ordinal", "Roman", "Number", "Acronym",
           "Proper", "Symbol", "Unknown">>

is_apostrophe(c) ==
    \/ c = APOSTROPHE
    \/ c = MODIFIER_LETTER_APOSTROPHE
    \/ c = RIGHT_SINGLE_QUOTATION_MARK
    \/ c = FULLWIDTH_APOSTROPHE

is_foreign(w) ==
    \E i \in DOMAIN w : is_alphabetic(w[i]) /\ ~is_ascii(w[i]) /\ ~is_apostrophe(w[i])

ORD_SUFFIXES == <<Str("1st"), Str("1ST"), Str("2nd"), Str("2ND"),
                  Str("3rd"), Str("3RD"), Str("th"), Str("TH")>>

\* the loop returns at the first suffix the word ends with
is_ordinal_number(w) ==
    /\ Len(w) >= 3
    /\ \E k \in DOMAIN ORD_SUFFIXES :
          /\ EndsWith(w, ORD_SUFFIXES[k])
          /\ \A j \in 1..(k - 1) : ~EndsWith(w, ORD_SUFFIXES[j])
          /\ LET p == StripSuffix(w, ORD_SUFFIXES[k])
             IN  \A i \in DOMAIN p : is_ascii_digit(p[i])

ROMAN_UPPER == {"I", "V", "X", "L", "C", "D", "M"}

ROMAN_LOWER == {"i", "v", "x", "l", "c", "d", "m"}

is_roman_numeral(w) ==
    /\ w # <<>>
    /\ \/ \A i \in DOMAIN w : w[i] \in ROMAN_UPPER
       \/ \A i \in DOMAIN w : w[i] \in ROMAN_LOWER

is_number(w) == \E i \in DOMAIN w : is_ascii_digit(w[i])

is_acronym(w) ==
    /\ Len(w) >= 2
    /\ \A i \in DOMAIN w : is_uppercase(w[i]) \/ w[i] = "."

is_probably_proper(w) ==
    /\ w # <<>>
    /\ is_uppercase(w[1])
    /\ \E i \in 2..Len(w) : is_lowercase(w[i])

\* a slip in the order of the rules: Acronym tried before Roman
KindFrom_AcronymBeforeRoman(w) ==
    IF is_foreign(w) THEN "Foreign"
    ELSE IF is_ordinal_number(w) THEN "Ordinal"
    ELSE IF is_acronym(w) THEN "Acronym"
    ELSE IF is_roman_numeral(w) THEN "Roman"
    ELSE IF is_number(w) THEN "Number"
    ELSE IF is_probably_proper(w) THEN "Proper"
    ELSE IF Len(w) = 1 THEN "Symbol"
    ELSE "Unknown"

\* impl From<&str> for Kind
KindFrom(w) ==
    IF is_foreign(w) THEN "Foreign"
    ELSE IF is_ordinal_number(w) THEN "Ordinal"
    ELSE IF is_roman_numeral(w) THEN "Roman"
    ELSE IF is_number(w) THEN "Number"
    ELSE IF is_acronym(w) THEN "Acronym"
    ELSE IF is_probably_proper(w) THEN "Proper"
    ELSE IF Len(w) = 1 THEN "Symbol"
    ELSE "Unknown"


-----------------------------------------------------------------------------
(* tally.rs *)

Categories == <<"Dictionary", "Ordinal", "Roman", "Number", "Acronym", "Foreign",
                "Proper", "Letter", "Unknown">>

is_word_char(c) == is_alphanumeric(c) \/ is_apostrophe(c) \/ c = "-" \/ c = "."

\* a check that accepts every string, the empty one too
is_word_valid_any(w) == TRUE

is_word_valid(w) == (\A i \in DOMAIN w : is_word_char(w[i])) /\ w # <<>>

tally_is_ordinal_number(w) ==
    \E k \in DOMAIN ORD_SUFFIXES :
        /\ EndsWith(w, ORD_SUFFIXES[k])
        /\ \A j \in 1..(k - 1) : ~EndsWith(w, ORD_SUFFIXES[j])
        /\ LET p == StripSuffix(w, ORD_SUFFIXES[k])
           IN  p # <<>> /\ \A i \in DOMAIN p : is_ascii_digit(p[i])

tally_is_roman_numeral(w) ==
    LET t == TrimEnd(w, {"."})
    IN  /\ t # <<>>
        /\ \/ \A i \in DOMAIN t : t[i] \in ROMAN_UPPER
           \/ \A i \in DOMAIN t : t[i] \in ROMAN_LOWER

tally_is_number(w) == \E i \in DOMAIN w : is_ascii_digit(w[i])

tally_is_acronym(w) ==
    str_len(w) >= 2 /\ \A i \in DOMAIN w : is_uppercase(w[i]) \/ w[i] = "."

tally_is_foreign(w) ==
    \E i \in DOMAIN w :
        /\ ~(w[i] \in AsciiLower \cup AsciiUpper \cup AsciiDigit)
        /\ w[i] # "-"
        /\ w[i] # "."
        /\ w[i] # RIGHT_SINGLE_QUOTATION_MARK

tally_is_probably_proper(w) ==
    /\ w # <<>>
    /\ is_uppercase(w[1])
    /\ \E i \in 2..Len(w) : is_lowercase(w[i])

\* impl From<&str> for Category
CategoryFrom(w) ==
    IF tally_is_foreign(w) THEN "Foreign"
    ELSE IF tally_is_ordinal_number(w) THEN "Ordinal"
    ELSE IF tally_is_roman_numeral(w) THEN "Roman"
    ELSE IF tally_is_number(w) THEN "Number"
    ELSE IF tally_is_acronym(w) THEN "Acronym"
    ELSE IF tally_is_probably_proper(w) THEN "Proper"
    ELSE IF str_len(w) = 1 THEN "Letter"
    ELSE "Unknown"

\* WordEntry::new
WordEntry_new(seen, w) == [seen |-> seen, word |-> w, cat |-> CategoryFrom(w)]

is_trim_start(c) == c = "-" \/ c = "." \/ ~is_word_char(c)

is_trim_end(c) == c = "-" \/ ~is_word_char(c)

\* str::replace(is_apostrophe, U+2019) followed by replace(ae ligature, "ae")
RECURSIVE replace_canonical(_)
replace_canonical(w) ==
    IF w = <<>> THEN <<>>
    ELSE (IF is_apostrophe(Head(w)) THEN <<RIGHT_SINGLE_QUOTATION_MARK>>
          ELSE IF Head(w) = "U+00E6" THEN <<"a", "e">>
          ELSE <<Head(w)>>) \o replace_canonical(Tail(w))

canonical_spelling(w) ==
    LET s == TrimStart(w, {c \in Chars(w) : is_trim_start(c)})
        e == TrimEnd(s, {c \in Chars(w) : is_trim_end(c)})
    IN  replace_canonical(e)

count_uppercase(w) == Cardinality({i \in DOMAIN w : is_uppercase(w[i])})

is_compound(com) ==
    /\ ContainsChar(com, "-")
    /\ LET ps == SplitChar(com, "-") IN \A i \in DOMAIN ps : is_word_valid(ps[i])

Full(c, a, b) == [t |-> "Full", p |-> c, a |-> a, b |-> b]

Prefix(p, ex) == [t |-> "Prefix", p |-> p, a |-> ex, b |-> <<>>]

Suffix(s, ex) == [t |-> "Suffix", p |-> s, a |-> ex, b |-> <<>>]

TALLY_CONTRACTIONS == <<
    Full(StrQ("ain't"), Str("am"), Str("not")),
    Full(StrQ("can't"), Str("can"), Str("not")),
    Full(StrQ("shan't"), Str("shall"), Str("not")),
    Full(StrQ("won't"), Str("will"), Str("not")),
    Suffix(StrQ("n't"), Str("not")),
    Suffix(StrQ("'ve"), Str("have")),
    Suffix(StrQ("'ll"), Str("will")),
    Full(StrQ("I'm"), Str("I"), Str("am")),
    Suffix(StrQ("'re"), Str("are")),
    Full(StrQ("he's"), Str("he"), Str("is")),
    Full(StrQ("it's"), Str("it"), Str("is")),
    Full(StrQ("she's"), Str("she"), Str("is")),
    Full(StrQ("that's"), Str("that"), Str("is")),
    Full(StrQ("there's"), Str("there"), Str("is")),
    Full(StrQ("what's"), Str("what"), Str("is")),
    Full(StrQ("who's"), Str("who"), Str("is")),
    Full(StrQ("'tis"), Str("it"), Str("is")),
    Full(StrQ("'twas"), Str("it"), Str("was")),
    Full(StrQ("'twill"), Str("it"), Str("will")),
    Suffix(StrQ("'d"), Str("would")),
    Suffix(StrQ("'s"), <<>>),
    Suffix(StrQ("'"), <<>>),
    Prefix(StrQ("'"), <<>>) >>

\* str::eq_ignore_ascii_case
eq_ignore_ascii_case(a, b) ==
    /\ Len(a) = Len(b)
    /\ \A i \in DOMAIN a : to_ascii_lowercase(a[i]) = to_ascii_lowercase(b[i])

\* Contraction::check
Contraction_check(con, w) ==
    CASE con.t = "Full" -> eq_ignore_ascii_case(w, con.p)
      [] con.t = "Prefix" -> StartsWith(w, con.p)
      [] con.t = "Suffix" -> EndsWith(w, con.p)

\* Contraction::expand
Contraction_expand(con, w) ==
    CASE con.t = "Full" -> <<con.a, con.b>>
      [] con.t = "Prefix" ->
            IF StartsWith(w, con.p) THEN <<StripPrefix(w, con.p), con.a>> ELSE <<w>>
      [] con.t = "Suffix" ->
            IF EndsWith(w, con.p) THEN <<StripSuffix(w, con.p), con.a>> ELSE <<w>>

\* split_contraction: the expansion by the first entry that matches, else empty
tally_split_contraction(w) ==
    LET hits == {k \in DOMAIN TALLY_CONTRACTIONS : Contraction_check(TALLY_CONTRACTIONS[k], w)}
    IN  IF hits = {} THEN <<>>
        ELSE Contraction_expand(
                 TALLY_CONTRACTIONS[CHOOSE k \in hits : \A j \in hits : k <= j], w)

\* the loop of split_contractions: words is the work stack, ex the result
RECURSIVE split_contractions_loop(_, _)
split_contractions_loop(stack, ex) ==
    IF stack = <<>> THEN ex
    ELSE LET w == Last(stack)
             rest == SubSeq(stack, 1, Len(stack) - 1)
             expanded == tally_split_contraction(w)
         IN  IF expanded = <<>>
             THEN split_contractions_loop(rest, Append(ex, w))
             ELSE split_contractions_loop(rest \o expanded, ex)

\* one expansion only, the pieces not tried again
split_contractions_once(w) ==
    LET expanded == tally_split_contraction(w)
    IN  IF expanded = <<>> THEN <<w>> ELSE expanded

split_contractions(w) == split_contractions_loop(<<w>>, <<>>)

\* Dict::contains: membership of the case-folded key (lowercase, apostrophes
\* folded to the ASCII one)
DictContains(d, w) ==
    [i \in DOMAIN w |-> IF is_apostrophe(w[i]) THEN APOSTROPHE ELSE to_lowercase_char(w[i])] \in d

\* the stored variant is replaced also on a tie of the uppercase counts
tally_word_tie(T, w, count) ==
    IF ~is_word_valid(w) THEN T
    ELSE LET we == WordEntry_new(1, w)
             key == to_lowercase(we.word)
         IN  IF key \in DOMAIN T
             THEN LET e == T[key]
                      r == IF count_uppercase(we.word) <= count_uppercase(e.word)
                           THEN [e EXCEPT !.word = we.word, !.cat = we.cat]
                           ELSE e
                  IN  [T EXCEPT ![key] = [r EXCEPT !.seen = r.seen + count]]
             ELSE MapInsert(T, key, [we EXCEPT !.seen = count])

\* WordTally::tally_word
tally_word(T, w, count) ==
    IF ~is_word_valid(w) THEN T
    ELSE LET we == WordEntry_new(1, w)
             key == to_lowercase(we.word)
         IN  IF key \in DOMAIN T
             THEN LET e == T[key]
                      r == IF count_uppercase(we.word) < count_uppercase(e.word)
                           THEN [e EXCEPT !.word = we.word, !.cat = we.cat]
                           ELSE e
                  IN  [T EXCEPT ![key] = [r EXCEPT !.seen = r.seen + count]]
             ELSE MapInsert(T, key, [we EXCEPT !.seen = count])

\* tally_word for each word of the sequence ws, in order
RECURSIVE tally_each(_, _, _)
tally_each(T, ws, count) ==
    IF ws = <<>> THEN T ELSE tally_each(tally_word(T, Head(ws), count), Tail(ws), count)

\* str::split_whitespace
RECURSIVE split_whitespace(_)
split_whitespace(t) ==
    LET s == TrimStart(t, AsciiSpace)
        i == FirstIn(s, AsciiSpace)
    IN  IF s = <<>> THEN <<>>
        ELSE IF i = 0 THEN <<s>>
        ELSE <<SubSeq(s, 1, i - 1)>> \o split_whitespace(SubSeq(s, i, Len(s)))

\* the clumps of a text: each cluster between whitespace, split at "--"
RECURSIVE clumps_of(_)
clumps_of(clusters) ==
    IF clusters = <<>> THEN <<>>
    ELSE SplitDoubleDash(Head(clusters)) \o clumps_of(Tail(clusters))

\* WordTally::parse_text
parse_text(T, txt) ==
    LET clumps == clumps_of(split_whitespace(txt))
    IN  tally_each(T, [i \in DOMAIN clumps |-> canonical_spelling(clumps[i])], 1)

\* the keys trim_periods collects
trim_periods_keys(T, d) ==
    {k \in DOMAIN T : ~DictContains(d, T[k].word) /\ EndsWith(T[k].word, <<".">>)}

\* the loop of trim_periods over the collected keys
RECURSIVE trim_periods_loop(_, _, _)
trim_periods_loop(T, d, keys) ==
    IF keys = <<>> THEN T
    ELSE LET key == Head(keys)
         IN  IF key \notin DOMAIN T THEN trim_periods_loop(T, d, Tail(keys))
             ELSE LET we == T[key]
                      w == TrimEnd(we.word, {"."})
                  IN  IF DictContains(d, w) \/ tally_is_roman_numeral(w) \/ we.cat = "Proper"
                      THEN trim_periods_loop(
                               tally_word(MapRemove(T, key), w, we.seen), d, Tail(keys))
                      ELSE trim_periods_loop(T, d, Tail(keys))

\* the keys split_unknown_compounds collects
compound_keys(T, d) ==
    {k \in DOMAIN T : ~DictContains(d, T[k].word) /\ is_compound(T[k].word)}

\* each piece is tallied once, whatever the seen count of the compound
RECURSIVE split_unknown_compounds_loop_once(_, _)
split_unknown_compounds_loop_once(T, keys) ==
    IF keys = <<>> THEN T
    ELSE LET key == Head(keys)
         IN  IF key \notin DOMAIN T THEN split_unknown_compounds_loop_once(T, Tail(keys))
             ELSE LET we == T[key]
                  IN  split_unknown_compounds_loop_once(
                          tally_each(MapRemove(T, key), SplitChar(we.word, "-"), 1),
                          Tail(keys))

\* the loop of split_unknown_compounds over the collected keys
RECURSIVE split_unknown_compounds_loop(_, _)
split_unknown_compounds_loop(T, keys) ==
    IF keys = <<>> THEN T
    ELSE LET key == Head(keys)
         IN  IF key \notin DOMAIN T THEN split_unknown_compounds_loop(T, Tail(keys))
             ELSE LET we == T[key]
                  IN  split_unknown_compounds_loop(
                          tally_each(MapRemove(T, key), SplitChar(we.word, "-"), we.seen),
                          Tail(keys))

\* the keys split_unknown_contractions collects
contraction_keys(T, d) ==
    {k \in DOMAIN T :
        ~DictContains(d, T[k].word) /\ ContainsChar(T[k].word, RIGHT_SINGLE_QUOTATION_MARK)}

\* the loop of split_unknown_contractions over the collected keys
RECURSIVE split_unknown_contractions_loop(_, _)
split_unknown_contractions_loop(T, keys) ==
    IF keys = <<>> THEN T
    ELSE LET key == Head(keys)
         IN  IF key \notin DOMAIN T THEN split_unknown_contractions_loop(T, Tail(keys))
             ELSE LET we == T[key]
                  IN  split_unknown_contractions_loop(
                          tally_each(MapRemove(T, key), split_contractions(we.word), we.seen),
                          Tail(keys))

\* the dictionary kind is given to every entry, in the dictionary or not
check_dict_all(T, d) == [k \in DOMAIN T |-> [T[k] EXCEPT !.cat = "Dictionary"]]

\* WordTally::check_dict
check_dict(T, d) ==
    [k \in DOMAIN T |->
        IF DictContains(d, T[k].word) THEN [T[k] EXCEPT !.cat = "Dictionary"] ELSE T[k]]

\* WordTally::cat_count
cat_count(T, cat) == Cardinality({k \in DOMAIN T : T[k].cat = cat})

-----------------------------------------------------------------------------
(* word.rs *)

\* Option and Result values
None == [some |-> FALSE]

Some(v) == [some |-> TRUE, val |-> v]

Err == [ok |-> FALSE]

Ok(v) == [ok |-> TRUE, val |-> v]

\* a character of the private use area: it has no transliteration
PRIVATE_USE == "U+E000"

\* deunicode::deunicode_char: the ASCII transliteration of a character, None
\* for a character the table does not cover
DeunicodeChar(c) ==
    IF is_ascii(c) THEN Some(<<c>>)
    ELSE IF c = "U+00E9" THEN Some(Str("e"))
    ELSE IF c = "U+00C9" THEN Some(Str("E"))
    ELSE IF c = "U+00E7" THEN Some(Str("c"))
    ELSE IF c = "U+00EF" THEN Some(Str("i"))
    ELSE IF c = "U+00E6" THEN Some(Str("ae"))
    ELSE IF c = "U+0153" THEN Some(Str("oe"))
    ELSE IF c = "U+0663" THEN Some(Str("3"))
    ELSE IF is_apostrophe(c) THEN Some(Str("'"))
    ELSE IF c \in {ZERO_WIDTH_SPACE, BOM} THEN Some(<<>>)
    ELSE None

WordClasses == {"Adjective", "Adverb", "Conjunction", "Determiner", "Interjection",
                "Noun", "Preposition", "Pronoun", "Verb"}

WordClass_try_from(cl) ==
    IF cl = Str("N") THEN Ok("Noun")
    ELSE IF cl = Str("V") THEN Ok("Verb")
    ELSE IF cl = Str("A") THEN Ok("Adjective")
    ELSE IF cl = Str("Av") THEN Ok("Adverb")
    ELSE IF cl = Str("P") THEN Ok("Preposition")
    ELSE IF cl = Str("Pn") THEN Ok("Pronoun")
    ELSE IF cl = Str("C") THEN Ok("Conjunction")
    ELSE IF cl = Str("D") THEN Ok("Determiner")
    ELSE IF cl = Str("I") THEN Ok("Interjection")
    ELSE Err

\* str::split_once(char)
SplitOnce(s, c) ==
    LET i == FirstIn(s, {c})
    IN  IF i = 0 THEN None ELSE Some(<<SubSeq(s, 1, i - 1), SubSeq(s, i + 1, Len(s))>>)

\* str::rsplit_once(pattern): the part before the last match of the pattern
RSplitOnce(s, pat) ==
    LET hits == {i \in 1..(Len(s) - Len(pat) + 1) : SubSeq(s, i, i + Len(pat) - 1) = pat}
    IN  IF hits = {} THEN None
        ELSE LET i == CHOOSE h \in hits : \A g \in hits : g <= h
             IN  Some(<<SubSeq(s, 1, i - 1), SubSeq(s, i + Len(pat), Len(s))>>)

\* the number of characters before byte offset i, -1 when i is past the end
\* or inside a character (str::split_at_checked gives None)
CharIndexAt(s, i) ==
    LET ks == {k \in 0..Len(s) : str_len(SubSeq(s, 1, k)) = i}
    IN  IF ks = {} THEN -1 ELSE CHOOSE k \in ks : TRUE

is_vowel(c) == c \in {"a", "e", "i", "o", "u", "y"}

ends_in_y(lemma) ==
    /\ EndsWith(lemma, Str("y"))
    /\ ~(\/ EndsWith(lemma, Str("ay"))
         \/ EndsWith(lemma, Str("ey"))
         \/ EndsWith(lemma, Str("iy"))
         \/ EndsWith(lemma, Str("oy"))
         \/ EndsWith(lemma, Str("uy"))
         \/ EndsWith(lemma, Str("yy")))

ends_in_e(lemma) ==
    /\ EndsWith(lemma, Str("e"))
    /\ ~(\/ EndsWith(lemma, Str("ae"))
         \/ EndsWith(lemma, Str("ee"))
         \/ EndsWith(lemma, Str("ie"))
         \/ EndsWith(lemma, Str("oe"))
         \/ EndsWith(lemma, Str("ye")))

\* the loop of consonant_end_repeat: the last three characters, "qu" counted
\* as one
RECURSIVE consonant_end_suffix(_, _)
consonant_end_suffix(suffix, s) ==
    IF s = <<>> THEN suffix
    ELSE IF suffix[3] = "q" /\ Head(s) = "u" THEN consonant_end_suffix(suffix, Tail(s))
    ELSE consonant_end_suffix(<<suffix[2], suffix[3], Head(s)>>, Tail(s))

consonant_end_repeat(s) ==
    LET suffix == consonant_end_suffix(<<" ", " ", " ">>, s)
    IN  IF suffix[3] \in {"w", "x"} THEN None
        ELSE IF <<suffix[2], suffix[3]>> \in {<<"e", "d">>, <<"e", "n">>, <<"e", "r">>, <<"o", "n">>}
        THEN None
        ELSE IF ~is_vowel(suffix[1]) /\ is_vowel(suffix[2]) /\ ~is_vowel(suffix[3])
        THEN Some(suffix[3])
        ELSE None

noun_plural(lemma) ==
    IF EndsWith(lemma, Str("sis")) /\ StripSuffix(lemma, Str("sis")) # <<>>
    THEN StripSuffix(lemma, Str("sis")) \o Str("ses")
    ELSE IF ends_in_y(lemma) THEN TrimEnd(lemma, {"y"}) \o Str("ies")
    ELSE IF \/ EndsWith(lemma, Str("s"))
            \/ EndsWith(lemma, Str("sh"))
            \/ EndsWith(lemma, Str("ch"))
            \/ EndsWith(lemma, Str("x"))
            \/ EndsWith(lemma, Str("z"))
    THEN lemma \o Str("es")
    ELSE lemma \o Str("s")

verb_present(lemma) ==
    IF ends_in_y(lemma) THEN TrimEnd(lemma, {"y"}) \o Str("ies")
    ELSE IF EndsWith(lemma, Str("s")) \/ EndsWith(lemma, Str("z"))
    THEN LET end == consonant_end_repeat(lemma)
         IN  IF end.some THEN lemma \o <<end.val>> \o Str("es") ELSE lemma \o Str("es")
    ELSE IF \/ EndsWith(lemma, Str("sh"))
            \/ EndsWith(lemma, Str("ch"))
            \/ EndsWith(lemma, Str("x"))
    THEN lemma \o Str("es")
    ELSE lemma \o Str("s")

\* the participle without the consonant doubling
verb_present_participle_undoubled(lemma) ==
    IF ends_in_e(lemma) THEN TrimEnd(lemma, {"e"}) \o Str("ing")
    ELSE lemma \o Str("ing")

verb_present_participle(lemma) ==
    LET end == consonant_end_repeat(lemma)
    IN  IF end.some THEN lemma \o <<end.val>> \o Str("ing")
        ELSE IF ends_in_e(lemma) THEN TrimEnd(lemma, {"e"}) \o Str("ing")
        ELSE lemma \o Str("ing")

verb_past(lemma) ==
    LET end == consonant_end_repeat(lemma)
    IN  IF end.some THEN lemma \o <<end.val>> \o Str("ed")
        ELSE IF EndsWith(lemma, Str("e")) THEN lemma \o Str("d")
        ELSE IF ends_in_y(lemma) THEN TrimEnd(lemma, {"y"}) \o Str("ied")
        ELSE lemma \o Str("ed")

adjective_comparative(lemma) ==
    IF EndsWith(lemma, Str("e")) THEN lemma \o Str("r")
    ELSE IF ends_in_y(lemma) THEN TrimEnd(lemma, {"y"}) \o Str("ier")
    ELSE LET end == consonant_end_repeat(lemma)
         IN  IF end.some THEN lemma \o <<end.val>> \o Str("er") ELSE lemma \o Str("er")

adjective_superlative(lemma) ==
    IF EndsWith(lemma, Str("e")) THEN lemma \o Str("st")
    ELSE IF ends_in_y(lemma) THEN TrimEnd(lemma, {"y"}) \o Str("iest")
    ELSE LET end == consonant_end_repeat(lemma)
         IN  IF end.some THEN lemma \o <<end.val>> \o Str("est") ELSE lemma \o Str("est")

\* Lexeme::count_syllables, of the lexeme's lemma
RECURSIVE count_syllables_loop(_, _)
count_syllables_loop(letter, s) ==
    IF s = <<>> THEN 0
    ELSE (IF is_vowel(Head(s)) /\ ~is_vowel(letter) THEN 1 ELSE 0)
         + count_syllables_loop(Head(s), Tail(s))

count_syllables(lemma) ==
    count_syllables_loop(" ", IF ends_in_e(lemma) THEN TrimEnd(lemma, {"e"}) ELSE lemma)

\* Lexeme::has_plural: no SingulareTantum or PluraleTantum attribute
has_plural(attr) == ~\E i \in DOMAIN attr : attr[i] \in {"s", "p"}

\* Lexeme::has_alternate_z
has_alternate_z(attr) == \E i \in DOMAIN attr : attr[i] = "z"

\* WordClass::build_regular_forms, for the lexeme lex and one of its spellings
build_regular_forms(word_class, lx, lemma) ==
    IF word_class = "Adjective" /\ count_syllables(lx.lemma) < 4
    THEN <<adjective_comparative(lemma), adjective_superlative(lemma)>>
    ELSE IF word_class = "Noun" /\ has_plural(lx.attr)
    THEN <<noun_plural(lemma)>>
    ELSE IF word_class = "Verb"
    THEN <<verb_present(lemma), verb_present_participle(lemma), verb_past(lemma)>>
    ELSE <<>>

decode_irregular(lemma, form) ==
    IF StartsWith(form, Str("-")) /\ Len(form) > 1
    THEN LET suffix == Tail(form)
             ch == Head(suffix)
             direct == RSplitOnce(lemma, <<ch>>)
             alt == DeunicodeChar(ch)
         IN  IF direct.some THEN Ok(direct.val[1] \o suffix)
             ELSE IF alt.some /\ (alt.val = <<>> \/ Head(alt.val) # ch)
                              /\ RSplitOnce(lemma, alt.val).some
             THEN Ok(RSplitOnce(lemma, alt.val).val[1] \o alt.val \o Tail(suffix))
             ELSE Err
    ELSE Ok(form)

\* the byte offsets at which encode_irregular's loop sets pos
encode_positions(lemma, form) ==
    {i \in 3..(str_len(lemma) - 1) :
        LET ka == CharIndexAt(lemma, i)
            kb == CharIndexAt(form, i)
        IN  /\ ka >= 0
            /\ kb >= 0
            /\ SubSeq(lemma, 1, ka) = SubSeq(form, 1, kb)
            /\ LET a1 == SubSeq(lemma, ka + 1, Len(lemma))
                   b1 == SubSeq(form, kb + 1, Len(form))
               IN  /\ a1 # <<>>
                   /\ b1 # <<>>
                   /\ Head(b1) = Head(a1)
                   /\ ~ContainsChar(Tail(a1), Head(a1))}

encode_irregular(lemma, form) ==
    LET ps == encode_positions(lemma, form)
    IN  IF ps = {} THEN form
        ELSE LET pos == CHOOSE p \in ps : \A q \in ps : q <= p
             IN  Str("-") \o SubSeq(form, CharIndexAt(form, pos) + 1, Len(form))

\* str::replace('z', "s")
replace_z(w) == [i \in DOMAIN w |-> IF w[i] = "z" THEN "s" ELSE w[i]]

\* the loop of variant_spellings over the characters of the lemma
RECURSIVE variant_spellings_loop(_, _)
variant_spellings_loop(variants, rest) ==
    IF rest = <<>> THEN variants
    ELSE LET ch == Head(rest)
             d == DeunicodeChar(ch)
         IN  IF d.some
             THEN LET alts == IF d.val = <<>> \/ Head(d.val) # ch
                              THEN [i \in DOMAIN variants |-> variants[i] \o d.val]
                              ELSE <<>>
                      es == IF ch \in {"U+00E6", "U+0153"}
                            THEN [i \in DOMAIN variants |-> Append(variants[i], "e")]
                            ELSE <<>>
                      pushed == [i \in DOMAIN variants |-> Append(variants[i], ch)]
                  IN  With(pushed \o alts \o es,
                           LAMBDA more : variant_spellings_loop(more, Tail(rest)))
             ELSE variant_spellings_loop(variants, Tail(rest))

variant_spellings(lx) ==
    LET variants == variant_spellings_loop(<< <<>> >>, lx.lemma)
    IN  IF has_alternate_z(lx.attr)
        THEN variants \o [i \in DOMAIN variants |-> replace_z(variants[i])]
        ELSE variants

\* the irregular arm of build_inflected: the decoded forms that differ from
\* the spelling, Err at the first form that does not decode
RECURSIVE build_irregular(_, _)
build_irregular(lemma, irregular_forms) ==
    IF irregular_forms = <<>> THEN Ok(<<>>)
    ELSE LET form == decode_irregular(lemma, Head(irregular_forms))
             rest == build_irregular(lemma, Tail(irregular_forms))
         IN  IF ~form.ok \/ ~rest.ok THEN Err
             ELSE Ok((IF form.val # lemma THEN <<form.val>> ELSE <<>>) \o rest.val)

\* Lexeme::build_inflected: the forms pushed for one spelling
build_inflected(lx, lemma) ==
    IF lx.irregular_forms = <<>>
    THEN Ok(<<lemma>> \o build_regular_forms(lx.word_class, lx, lemma))
    ELSE LET more == build_irregular(lemma, lx.irregular_forms)
         IN  IF more.ok THEN Ok(<<lemma>> \o more.val) ELSE Err

\* Lexeme::build_inflected_forms: the forms of every spelling, in order
build_inflected_forms(lx, variants) ==
    With([i \in DOMAIN variants |-> build_inflected(lx, variants[i])],
         LAMBDA parts :
             IF \E i \in DOMAIN parts : ~parts[i].ok THEN Err
             ELSE Ok(ConcatRange([i \in DOMAIN parts |-> parts[i].val], 1, Len(parts))))

\* the loop of Lexeme::try_from over the irregular forms of the line
RECURSIVE irregular_forms_of(_, _)
irregular_forms_of(lemma, vals) ==
    IF vals = <<>> THEN Ok(<<>>)
    ELSE LET form == decode_irregular(lemma, Head(vals))
             rest == irregular_forms_of(lemma, Tail(vals))
         IN  IF ~form.ok \/ ~rest.ok THEN Err
             ELSE Ok(<<encode_irregular(lemma, form.val)>> \o rest.val)

\* impl TryFrom<&str> for Lexeme
Lexeme_try_from(ln) ==
    LET vals == SplitChar(ln, ",")
        head == SplitOnce(vals[1], ":")
    IN  IF vals[1] = <<>> \/ ~head.some THEN Err
        ELSE LET lemma == head.val[1]
                 cla == head.val[2]
                 dot == SplitOnce(cla, ".")
                 wc == IF dot.some THEN dot.val[1] ELSE cla
                 a == IF dot.some THEN dot.val[2] ELSE <<>>
                 word_class == WordClass_try_from(wc)
                 irregular_forms == irregular_forms_of(lemma, Tail(vals))
             IN  IF ~word_class.ok \/ ~irregular_forms.ok THEN Err
                 ELSE LET lx == [lemma |-> lemma,   word_class |-> word_class.val,
                                   attr |-> a, irregular_forms |-> irregular_forms.val,
                                   forms |-> <<>>]
                          forms == With(variant_spellings(lx),
                                        LAMBDA vs : build_inflected_forms(lx, vs))
                      IN  IF forms.ok THEN Ok([lx EXCEPT !.forms = forms.val]) ELSE Err

-----------------------------------------------------------------------------
(* lex.rs *)

\* make_word: every apostrophe becomes U+0027, every other character is
\* lowercased
make_word(w) ==
    [i \in DOMAIN w |-> IF is_apostrophe(w[i]) THEN APOSTROPHE ELSE to_lowercase_char(w[i])]

\* Lexicon::new.  The indices kept in forms count from 0, as Vec indices do.
Lexicon_new == [words |-> <<>>, forms |-> EmptyMap]

\* Lexicon::insert_form: the form itself is looked up, its lowercase is the
\* key inserted when the lookup misses
insert_form(L, form) ==
    LET n == Len(L.words)
    IN  IF form \in DOMAIN L.forms
        THEN [L EXCEPT !.forms = [L.forms EXCEPT ![form] = Append(@, n)]]
        ELSE [L EXCEPT !.forms = MapInsert(L.forms, to_lowercase(form), <<n>>)]

RECURSIVE insert_forms(_, _)
insert_forms(L, forms) ==
    IF forms = <<>> THEN L
    ELSE With(insert_form(L, Head(forms)), LAMBDA M : insert_forms(M, Tail(forms)))

\* Lexicon::insert
Lexicon_insert(L, lx) ==
    With(insert_forms(L, lx.forms), LAMBDA M : [M EXCEPT !.words = Append(@, lx)])

\* Lexicon::contains
Lexicon_contains(L, w) == make_word(w) \in DOMAIN L.forms

\* Lexicon::word_entries
word_entries(L, w) ==
    IF make_word(w) \in DOMAIN L.forms
    THEN LET indices == L.forms[make_word(w)]
         IN  [i \in DOMAIN indices |-> L.words[indices[i] + 1]]
    ELSE <<>>

\* Lexicon::forms: the keys of the index
Lexicon_forms(L) == DOMAIN L.forms

\* word_class of hilite.rs, on the lexicon L: the class of the only entry
hilite_word_class(L, w) ==
    IF Len(word_entries(L, w)) = 1 THEN Some(word_entries(L, w)[1].word_class) ELSE None

\* make_builtin's loop, over the lines given
RECURSIVE make_lexicon(_, _)
make_lexicon(L, lines) ==
    IF lines = <<>> THEN L
    ELSE With(Lexeme_try_from(Head(lines)).val,
              LAMBDA lx : With(Lexicon_insert(L, lx),
                               LAMBDA M : make_lexicon(M, Tail(lines))))

-----------------------------------------------------------------------------
(* contractions.rs *)

\* a replacement rule that puts the pattern back
SuffixReplacement_pattern(s, ex) == [t |-> "SuffixReplacement", p |-> s, a |-> s, b |-> <<>>]

SuffixReplacement(s, ex) == [t |-> "SuffixReplacement", p |-> s, a |-> ex, b |-> <<>>]

CONTRACTIONS == <<
    Full(StrQ("ain't"), Str("am"), Str("not")),
    Full(StrQ("can't"), Str("can"), Str("not")),
    Full(StrQ("shan't"), Str("shall"), Str("not")),
    Full(StrQ("won't"), Str("will"), Str("not")),
    Suffix(StrQ("n't"), Str("not")),
    Suffix(StrQ("'ve"), Str("have")),
    Suffix(StrQ("'ll"), Str("will")),
    Full(StrQ("I'm"), Str("I"), Str("am")),
    Suffix(StrQ("'re"), Str("are")),
    Full(StrQ("he's"), Str("he"), Str("is")),
    Full(StrQ("it's"), Str("it"), Str("is")),
    Full(StrQ("she's"), Str("she"), Str("is")),
    Full(StrQ("that's"), Str("that"), Str("is")),
    Full(StrQ("there's"), Str("there"), Str("is")),
    Full(StrQ("what's"), Str("what"), Str("is")),
    Full(StrQ("who's"), Str("who"), Str("is")),
    Full(StrQ("'tis"), Str("it"), Str("is")),
    Full(StrQ("'twas"), Str("it"), Str("was")),
    Full(StrQ("'twill"), Str("it"), Str("will")),
    Full(StrQ("m'dear"), Str("my"), Str("dear")),
    Full(StrQ("m'lady"), Str("my"), Str("lady")),
    Full(StrQ("m'lord"), Str("my"), Str("lord")),
    Suffix(StrQ("'d"), Str("would")),
    Suffix(StrQ("'s"), <<>>),
    SuffixReplacement(StrQ("n'"), Str("ng")),
    Suffix(StrQ("'"), <<>>),
    Prefix(StrQ("'"), StrQ("'")) >>

\* the comparison without the ASCII case folding
equals_contraction_cased(part, w) ==
    /\ Len(part) = Len(w)
    /\ \A i \in DOMAIN part :
          part[i] = w[i] \/ (is_apostrophe(part[i]) /\ is_apostrophe(w[i]))

equals_contraction(part, w) ==
    /\ Len(part) = Len(w)
    /\ \A i \in DOMAIN part :
          LET a == to_ascii_lowercase(part[i])
              b == to_ascii_lowercase(w[i])
          IN  a = b \/ (is_apostrophe(a) /\ is_apostrophe(b))

\* Contraction::try_expand: whether the entry matches, and the words it pushes
try_expand(con, w) ==
    LET len == Len(con.p)
        a == IF con.t = "Prefix" THEN SubSeq(w, 1, len) ELSE SubSeq(w, 1, Len(w) - len)
        b == IF con.t = "Prefix" THEN SubSeq(w, len + 1, Len(w))
             ELSE SubSeq(w, Len(w) - len + 1, Len(w))
    IN  IF con.t = "Full"
        THEN IF equals_contraction(con.p, w)
             THEN [hit |-> TRUE, push |-> <<con.a, con.b>>]
             ELSE [hit |-> FALSE, push |-> <<>>]
        ELSE IF con.t = "Prefix"
        THEN IF Len(w) > len /\ equals_contraction(con.p, a)
             THEN [hit |-> TRUE, push |-> <<b, con.a>>]
             ELSE [hit |-> FALSE, push |-> <<>>]
        ELSE IF con.t = "Suffix"
        THEN IF Len(w) >= len /\ equals_contraction(con.p, b)
             THEN [hit |-> TRUE, push |-> <<con.a, a>>]
             ELSE [hit |-> FALSE, push |-> <<>>]
        ELSE IF Len(w) >= len /\ equals_contraction(con.p, b)
             THEN [hit |-> TRUE, push |-> <<a \o con.a>>]
             ELSE [hit |-> FALSE, push |-> <<>>]

\* the table scanned bottom to top: the index of the last entry that matches
first_hit_from_bottom(w) ==
    LET hits == {k \in DOMAIN CONTRACTIONS : try_expand(CONTRACTIONS[k], w).hit}
    IN  IF hits = {} THEN 0 ELSE CHOOSE k \in hits : \A j \in hits : k >= j

\* the loop of split_contraction: the index of the first entry of the table
\* that matches, 0 when none does
first_hit(w) ==
    LET hits == {k \in DOMAIN CONTRACTIONS : try_expand(CONTRACTIONS[k], w).hit}
    IN  IF hits = {} THEN 0 ELSE CHOOSE k \in hits : \A j \in hits : k <= j

\* split_contraction: the first entry of the table that matches
contractions_split_contraction(w) ==
    With(first_hit(w),
         LAMBDA k : IF k = 0 THEN [hit |-> FALSE, push |-> <<>>]
                    ELSE try_expand(CONTRACTIONS[k], w))

\* the loop of split: words is the work stack, ex the result
RECURSIVE contractions_split_loop(_, _)
contractions_split_loop(ws, ex) ==
    IF ws = <<>> THEN ex
    ELSE LET w == Last(ws)
             rest == SubSeq(ws, 1, Len(ws) - 1)
         IN  With(contractions_split_contraction(w),
                  LAMBDA r : IF r.hit
                             THEN With(rest \o r.push,
                                       LAMBDA ws2 : contractions_split_loop(ws2, ex))
                             ELSE With(Append(ex, w),
                                       LAMBDA ex2 : contractions_split_loop(rest, ex2)))

\* contractions::split
contractions_split(w) == contractions_split_loop(<<w>>, <<>>)

-----------------------------------------------------------------------------
(* parse.rs *)

\* The bytes of the input are strings too: an ASCII byte is its character,
\* a byte from 0x80 is "xHH".
Utf8Bytes(c) ==
    IF is_ascii(c) THEN <<c>>
    ELSE IF c = "U+00E9" THEN <<"xC3", "xA9">>
    ELSE IF c = "U+00C9" THEN <<"xC3", "x89">>
    ELSE IF c = "U+00E7" THEN <<"xC3", "xA7">>
    ELSE IF c = "U+00EF" THEN <<"xC3", "xAF">>
    ELSE IF c = "U+00E6" THEN <<"xC3", "xA6">>
    ELSE IF c = "U+0153" THEN <<"xC5", "x93">>
    ELSE IF c = "U+0663" THEN <<"xD9", "xA3">>
    ELSE IF c = "U+02BC" THEN <<"xCA", "xBC">>
    ELSE IF c = "U+2019" THEN <<"xE2", "x80", "x99">>
    ELSE IF c = "U+200B" THEN <<"xE2", "x80", "x8B">>
    ELSE IF c = "U+E000" THEN <<"xEE", "x80", "x80">>
    ELSE IF c = "U+FF07" THEN <<"xEF", "xBC", "x87">>
    ELSE IF c = "U+1F600" THEN <<"xF0", "x9F", "x98", "x80">>
    ELSE <<"xEF", "xBB", "xBF">>

\* the characters the inputs are written in
ModelChars ==
    AsciiLower \cup AsciiUpper \cup AsciiDigit \cup AsciiPunct \cup AsciiSpace
    \cup NonAsciiLower \cup NonAsciiUpper \cup NonAsciiDigit
    \cup {APOSTROPHE, MODIFIER_LETTER_APOSTROPHE, RIGHT_SINGLE_QUOTATION_MARK,
          FULLWIDTH_APOSTROPHE, ZERO_WIDTH_SPACE, BOM, PRIVATE_USE, ESCAPE,
          GRINNING_FACE}

\* the UTF-8 encoding of a string
RECURSIVE Utf8(_)
Utf8(w) == IF w = <<>> THEN <<>> ELSE Utf8Bytes(Head(w)) \o Utf8(Tail(w))

\* str::from_utf8(&code) followed by chars().next()
from_utf8(code) ==
    IF \E c \in ModelChars : Utf8Bytes(c) = code
    THEN Some(CHOOSE c \in ModelChars : Utf8Bytes(c) = code)
    ELSE None

\* CharSplitter::next_char: eof at the end of the input, else the character
\* or the error, and the bytes left
RECURSIVE next_char_loop(_, _, _)
next_char_loop(bs, code, i) ==
    IF i = 4 THEN [eof |-> FALSE, ok |-> FALSE, c |-> "", bytes |-> bs]
    ELSE IF bs = <<>>
    THEN [eof |-> code = <<>>, ok |-> FALSE, c |-> "", bytes |-> bs]
    ELSE LET code2 == Append(code, Head(bs))
         IN  IF from_utf8(code2).some
             THEN [eof |-> FALSE, ok |-> TRUE, c |-> from_utf8(code2).val, bytes |-> Tail(bs)]
             ELSE next_char_loop(Tail(bs), code2, i + 1)

\* next_char without the limit of four bytes
next_char_unlimited(bs) == next_char_loop(bs, <<>>, 0 - Len(bs))

next_char(bs) == next_char_loop(bs, <<>>, 0)

is_boundary(c) == is_whitespace(c) \/ is_control(c) \/ c = ZERO_WIDTH_SPACE \/ c = BOM

Chunk_from_char(c) ==
    IF is_boundary(c) THEN "Boundary"
    ELSE IF is_alphanumeric(c) \/ is_apostrophe(c) THEN "Text"
    ELSE "Symbol"

is_dot_appendable(w) ==
    /\ Len(w) > 0
    /\ \A i \in DOMAIN w : is_uppercase(w[i]) \/ w[i] = "."
    /\ ~EndsWith(w, <<".">>)

is_splittable(c) == c = "-" \/ is_apostrophe(c)

\* Parser::word_kind
word_kind(L, w) == IF Lexicon_contains(L, w) THEN "Lexicon" ELSE KindFrom(w)

\* the loop of contraction_kind over the expansion: Unknown at the first
\* Unknown piece, else the kinds collected
RECURSIVE contraction_kinds(_, _, _)
contraction_kinds(L, ws, kinds) ==
    IF ws = <<>> THEN [unknown |-> FALSE, kinds |-> kinds]
    ELSE IF Head(ws) = <<>> THEN contraction_kinds(L, Tail(ws), kinds)
    ELSE IF word_kind(L, Head(ws)) = "Unknown" THEN [unknown |-> TRUE, kinds |-> kinds]
    ELSE contraction_kinds(L, Tail(ws), Append(kinds, word_kind(L, Head(ws))))

\* contraction_kind with the kind of the first piece in place of the last
contraction_kind_first(L, w) ==
    IF Lexicon_contains(L, w) THEN "Lexicon"
    ELSE IF \E i \in DOMAIN w : is_apostrophe(w[i])
    THEN With(contractions_split(w),
              LAMBDA ws : With(contraction_kinds(L, ws, <<>>),
                  LAMBDA r : IF r.unknown \/ r.kinds = <<>> THEN "Unknown" ELSE Head(r.kinds)))
    ELSE KindFrom(w)

\* Parser::contraction_kind
contraction_kind(L, w) ==
    IF Lexicon_contains(L, w) THEN "Lexicon"
    ELSE IF \E i \in DOMAIN w : is_apostrophe(w[i])
    THEN With(contractions_split(w),
              LAMBDA ws : With(contraction_kinds(L, ws, <<>>),
                  LAMBDA r : IF r.unknown \/ r.kinds = <<>> THEN "Unknown" ELSE Last(r.kinds)))
    ELSE KindFrom(w)

\* one item of Parser.chunks
Triple(chunk, txt, k) == [ok |-> TRUE, chunk |-> chunk, text |-> txt, kind |-> k]

ErrorItem == [ok |-> FALSE, chunk |-> "Error", text |-> <<>>, kind |-> "none"]

\* Parser::push_word
push_word(L, cs, chunk, w) == Append(cs, Triple(chunk, w, word_kind(L, w)))

\* Parser::push_word_check_contraction
push_word_check_contraction(L, cs, w) ==
    IF w # <<>> THEN Append(cs, Triple("Text", w, contraction_kind(L, w))) ELSE cs

\* the loop of push_chunk over the pieces between hyphens
RECURSIVE push_pieces(_, _, _, _)
push_pieces(L, cs, pieces, first) ==
    IF pieces = <<>> THEN cs
    ELSE LET dashed == IF first THEN cs ELSE push_word(L, cs, "Symbol", <<"-">>)
         IN  push_pieces(L, push_word_check_contraction(L, dashed, Head(pieces)),
                         Tail(pieces), FALSE)

\* Parser::push_chunk
push_chunk(L, cs, chunk, txt) ==
    IF \/ Len(txt) = 1
       \/ Lexicon_contains(L, txt)
       \/ ~\E i \in DOMAIN txt : is_splittable(txt[i])
    THEN push_word(L, cs, chunk, txt)
    ELSE push_pieces(L, cs, SplitChar(txt, "-"), TRUE)

\* Parser::push_symbol and Parser::push_boundary
push_symbol(L, cs, c) == push_chunk(L, cs, "Symbol", <<c>>)

push_boundary(L, cs, c) == push_chunk(L, cs, "Boundary", <<c>>)

\* push_text without the test of the length, as in handle_text of chunk.rs
push_text_any_length(L, cs, txt) ==
    IF txt = <<>> THEN cs
    ELSE IF EndsWith(txt, <<".">>) /\ CountChars(txt, {"."}) = 1
    THEN push_symbol(L, push_chunk(L, cs, "Text", SubSeq(txt, 1, Len(txt) - 1)), ".")
    ELSE push_chunk(L, cs, "Text", txt)

\* Parser::push_text: the pending text is taken and pushed
push_text(L, cs, txt) ==
    IF txt = <<>> THEN cs
    ELSE IF EndsWith(txt, <<".">>) /\ Len(txt) > 2 /\ CountChars(txt, {"."}) = 1
    THEN push_symbol(L, push_chunk(L, cs, "Text", SubSeq(txt, 1, Len(txt) - 1)), ".")
    ELSE push_chunk(L, cs, "Text", txt)

\* read_chunk without the return after a boundary: it reads on to the next
\* symbol, error or end of input
RECURSIVE read_chunk_through(_, _)
read_chunk_through(L, P) ==
    With(next_char(P.bytes), LAMBDA ch :
        IF ch.eof
        THEN [bytes |-> ch.bytes, text |-> <<>>, chunks |-> push_text(L, P.chunks, P.text)]
        ELSE IF ~ch.ok
        THEN [bytes |-> ch.bytes, text |-> P.text, chunks |-> Append(P.chunks, ErrorItem)]
        ELSE IF Chunk_from_char(ch.c) = "Boundary"
        THEN With([bytes |-> ch.bytes, text |-> <<>>,
                   chunks |-> push_boundary(L, push_text(L, P.chunks, P.text), ch.c)],
                  LAMBDA Q : read_chunk_through(L, Q))
        ELSE IF Chunk_from_char(ch.c) = "Symbol"
        THEN IF ch.c = "-" /\ P.text # <<>> /\ ~EndsWith(P.text, <<"-">>)
             THEN With([P EXCEPT !.bytes = ch.bytes, !.text = Append(P.text, "-")],
                       LAMBDA Q : read_chunk_through(L, Q))
             ELSE IF ch.c = "." /\ is_dot_appendable(P.text)
             THEN With([P EXCEPT !.bytes = ch.bytes, !.text = Append(P.text, ".")],
                       LAMBDA Q : read_chunk_through(L, Q))
             ELSE [bytes |-> ch.bytes, text |-> <<>>,
                   chunks |-> push_symbol(L, push_text(L, P.chunks, P.text), ch.c)]
        ELSE With([P EXCEPT !.bytes = ch.bytes, !.text = Append(P.text, ch.c)],
                  LAMBDA Q : read_chunk_through(L, Q)))

\* Parser::read_chunk, on the parser P = [bytes, text, chunks]
RECURSIVE read_chunk(_, _)
read_chunk(L, P) ==
    With(next_char(P.bytes), LAMBDA ch :
        IF ch.eof
        THEN [bytes |-> ch.bytes, text |-> <<>>, chunks |-> push_text(L, P.chunks, P.text)]
        ELSE IF ~ch.ok
        THEN [bytes |-> ch.bytes, text |-> P.text, chunks |-> Append(P.chunks, ErrorItem)]
        ELSE IF Chunk_from_char(ch.c) = "Boundary"
        THEN [bytes |-> ch.bytes, text |-> <<>>,
              chunks |-> push_boundary(L, push_text(L, P.chunks, P.text), ch.c)]
        ELSE IF Chunk_from_char(ch.c) = "Symbol"
        THEN IF ch.c = "-" /\ P.text # <<>> /\ ~EndsWith(P.text, <<"-">>)
             THEN With([P EXCEPT !.bytes = ch.bytes, !.text = Append(P.text, "-")],
                       LAMBDA Q : read_chunk(L, Q))
             ELSE IF ch.c = "." /\ is_dot_appendable(P.text)
             THEN With([P EXCEPT !.bytes = ch.bytes, !.text = Append(P.text, ".")],
                       LAMBDA Q : read_chunk(L, Q))
             ELSE [bytes |-> ch.bytes, text |-> <<>>,
                   chunks |-> push_symbol(L, push_text(L, P.chunks, P.text), ch.c)]
        ELSE With([P EXCEPT !.bytes = ch.bytes, !.text = Append(P.text, ch.c)],
                  LAMBDA Q : read_chunk(L, Q)))

-----------------------------------------------------------------------------
(* chunk.rs *)

\* CharSplitter, Chunk::from_char, is_boundary, is_apostrophe and
\* is_dot_appendable of chunk.rs are the same code as in parse.rs.

\* canonical_char of chunk.rs: the replacement string, if there is one
canonical_char(c) ==
    IF is_apostrophe(c) THEN Some(<<RIGHT_SINGLE_QUOTATION_MARK>>)
    ELSE IF c = "U+00E6" THEN Some(<<"a", "e">>)
    ELSE None

\* one call of a ChunkHandler method: text, symbol or boundary, and its string
HandlerCall(method, txt) == [chunk |-> method, text |-> txt]

\* handle_text of chunk.rs: the calls made for the pending chunk
handle_text(calls, chunk) ==
    IF chunk = <<>> THEN calls
    ELSE IF EndsWith(chunk, <<".">>) /\ CountChars(chunk, {"."}) = 1
    THEN calls \o <<HandlerCall("Text", SubSeq(chunk, 1, Len(chunk) - 1)),
                    HandlerCall("Symbol", <<".">>)>>
    ELSE Append(calls, HandlerCall("Text", chunk))

\* chunk::parse_text, one iteration of its loop over the characters, on
\* H = [bytes, chunk, calls, result]; the result is "Ok" after the loop and
\* "Err" when the ? operator returns the error of the splitter
parse_text_iteration(H) ==
    With(next_char(H.bytes), LAMBDA ch :
        IF ch.eof
        THEN [bytes |-> ch.bytes, chunk |-> <<>>, calls |-> handle_text(H.calls, H.chunk),
              result |-> "Ok"]
        ELSE IF ~ch.ok
        THEN [H EXCEPT !.bytes = ch.bytes, !.result = "Err"]
        ELSE IF Chunk_from_char(ch.c) = "Boundary"
        THEN [H EXCEPT !.bytes = ch.bytes, !.chunk = <<>>,
                       !.calls = Append(handle_text(H.calls, H.chunk),
                                        HandlerCall("Boundary", <<ch.c>>))]
        ELSE IF Chunk_from_char(ch.c) = "Symbol"
        THEN IF ch.c = "-" /\ H.chunk # <<>> /\ ~EndsWith(H.chunk, <<"-">>)
             THEN [H EXCEPT !.bytes = ch.bytes, !.chunk = Append(H.chunk, "-")]
             ELSE IF ch.c = "." /\ is_dot_appendable(H.chunk)
             THEN [H EXCEPT !.bytes = ch.bytes, !.chunk = Append(H.chunk, ".")]
             ELSE [H EXCEPT !.bytes = ch.bytes, !.chunk = <<>>,
                            !.calls = Append(handle_text(H.calls, H.chunk),
                                             HandlerCall("Symbol", <<ch.c>>))]
        ELSE IF canonical_char(ch.c).some
        THEN [H EXCEPT !.bytes = ch.bytes, !.chunk = H.chunk \o canonical_char(ch.c).val]
        ELSE [H EXCEPT !.bytes = ch.bytes, !.chunk = Append(H.chunk, ch.c)])

-----------------------------------------------------------------------------
(* splitter.rs *)

\* WordSplitter::next_char: the code of CharSplitter::next_char
splitter_next_char(bs) == next_char(bs)

should_discard(c) == is_whitespace(c) \/ c = BOM \/ is_control(c)

\* any character that is not discarded extends the chunk
is_chunk_char_any(c) == TRUE

is_chunk_char(c) == is_alphanumeric(c) \/ is_apostrophe(c) \/ c = "-" \/ c = "."

SomeChunk(chunk) == [some |-> TRUE, ok |-> TRUE, chunk |-> chunk]

ErrorChunk == [some |-> TRUE, ok |-> FALSE, chunk |-> <<>>]

NoChunk == [some |-> FALSE, ok |-> TRUE, chunk |-> <<>>]

\* the loop of WordSplitter::next: the bytes left, the character kept for the
\* next call and the item returned
RECURSIVE splitter_loop(_, _)
splitter_loop(bs, chunk) ==
    With(splitter_next_char(bs),
         LAMBDA r :
             IF r.eof
             THEN [bytes |-> r.bytes, next |-> None,
                   item |-> IF chunk # <<>> THEN SomeChunk(chunk) ELSE NoChunk]
             ELSE IF ~r.ok
             THEN [bytes |-> r.bytes, next |-> None, item |-> ErrorChunk]
             ELSE IF should_discard(r.c)
             THEN IF chunk # <<>>
                  THEN [bytes |-> r.bytes, next |-> None, item |-> SomeChunk(chunk)]
                  ELSE splitter_loop(r.bytes, chunk)
             ELSE IF chunk = <<>>
             THEN splitter_loop(r.bytes, <<r.c>>)
             ELSE IF is_chunk_char(Head(chunk)) /\ is_chunk_char(r.c)
             THEN With(Append(chunk, r.c), LAMBDA chunk2 : splitter_loop(r.bytes, chunk2))
             ELSE [bytes |-> r.bytes, next |-> Some(r.c), item |-> SomeChunk(chunk)])

\* WordSplitter::next
WordSplitter_next(bs, nxt) ==
    splitter_loop(bs, IF nxt.some THEN <<nxt.val>> ELSE <<>>)

-----------------------------------------------------------------------------
(* Bounds and inputs *)

MaxKindLen == 3

KindAlphabet == {"1", "3", "r", "d", "t", "h", "I", "V", "i", "A", "T", ".",
                 "U+00EF", "U+02BC"}

\* tally_word calls in one behaviour, and the largest count of one call
MaxCalls == 3

MaxCount == 2

\* the words handed to tally_word: case variants of one key, another key,
\* and a string that is no valid word
TallyWordInputs == {Str("Ab"), Str("aB"), Str("ab"), Str("AB"), Str("b"), Str("a b")}

\* parse_text calls in one behaviour
MaxParses == 2

\* the texts handed to parse_text
TallyTexts == {
    Str("The cat and the CAT and THE cat."),
    Str("cat. Cat"),
    Str("dog's"),
    Str("o'clock's"),
    Str("o'clock"),
    Str("he'd've"),
    Str("don't DON'T's"),
    Str("It's it's"),
    Str("a-b"),
    Str("A-b-a b"),
    Str("well-known"),
    Str("x--y"),
    Str("Ab aB"),
    Str("'em"),
    Str("IV. Mr."),
    Str("Ab-x aB-y"),
    Str("Ab's aB's") }

\* the dictionaries the passes are run with
TallyDicts == {
    {},
    {Str("cat"), Str("dog"), Str("well-known"), Str("it's"), Str("b"), Str("mr")} }

-----------------------------------------------------------------------------
(* State *)

vars == <<word, kind, words, dict, last, hist, nparsed, line, lexeme, irr, lex,
          input, bytes, text, chunks, yielded, ret, split, once, threads, splitter, handler, pc>>

kindVars == <<word, kind>>

tallyVars == <<words, dict, last, hist, nparsed>>

lexemeVars == <<line, lexeme, irr>>

readerVars == <<input, bytes, text, chunks, yielded, ret>>

builtinVars == <<once, threads>>

chunkVars == <<handler>>

parserVars == <<readerVars, split, builtinVars, splitter, chunkVars>>

NoOp == [op |-> "none", before |-> EmptyMap, arg |-> <<>>, count |-> 0]

KindIdle == word = <<>> /\ kind = "none"

TallyIdle ==
    /\ words = EmptyMap
    /\ dict = {}
    /\ last = NoOp
    /\ hist = <<>>
    /\ nparsed = 0

NoIrregular ==
    [step |-> "none", lemma |-> <<>>, token |-> <<>>, decoded |-> Err, encoded |-> <<>>,
     redecoded |-> Err]

LexemeIdle == line = <<>> /\ lexeme = Err /\ irr = NoIrregular

LexIdle == lex = Lexicon_new

NoCall == [called |-> FALSE, some |-> FALSE, item |-> ErrorItem, read |-> 0]

NoInput == [chars |-> <<>>, bytes |-> <<>>, utf8 |-> TRUE]

NoSplit == [word |-> <<>>, words |-> <<>>, ex |-> <<>>, hits |-> {}, done |-> FALSE]

ReaderIdle ==
    /\ input = NoInput
    /\ bytes = <<>>
    /\ text = <<>>
    /\ chunks = <<>>
    /\ yielded = <<>>
    /\ ret = NoCall

NoOnce == [state |-> "Incomplete", lines |-> <<>>, started |-> 0, runs |-> 0]

BuiltinIdle == once = NoOnce /\ threads = <<>>

NoItem == [some |-> FALSE, ok |-> TRUE, chunk |-> <<>>]

NoSplitter ==
    [input |-> NoInput, bytes |-> <<>>, next |-> None, yielded |-> <<>>, ret |-> NoItem,
     calls |-> 0]

NoHandler == [bytes |-> <<>>, chunk |-> <<>>, calls |-> <<>>, result |-> "none"]

ChunkIdle == handler = NoHandler

ParserIdle ==
    ReaderIdle /\ split = NoSplit /\ BuiltinIdle /\ splitter = NoSplitter /\ ChunkIdle

-----------------------------------------------------------------------------
(* The classifier applied to every word of the bounded alphabet *)

InitKind ==
    /\ word \in WordsUpTo(KindAlphabet, MaxKindLen)
    /\ kind = "none"
    /\ pc = "start"
    /\ TallyIdle
    /\ LexemeIdle
    /\ LexIdle
    /\ ParserIdle

Classify ==
    /\ pc = "start"
    /\ kind' = KindFrom(word)
    /\ pc' = "classified"
    /\ UNCHANGED <<word, tallyVars, lexemeVars, lex, parserVars>>

NextKind == Classify

SpecKind == InitKind /\ [][NextKind]_vars

-----------------------------------------------------------------------------
(* WordTally::tally_word called any number of times on a new tally *)

InitTallyWord ==
    /\ TallyIdle
    /\ KindIdle
    /\ LexemeIdle
    /\ LexIdle
    /\ ParserIdle
    /\ pc = "tally"

TallyWordCall(w, count) ==
    /\ Len(hist) < MaxCalls
    /\ words' = tally_word(words, w, count)
    /\ hist' = Append(hist, <<w, count>>)
    /\ last' = [op |-> "tally_word", before |-> words, arg |-> w, count |-> count]
    /\ UNCHANGED <<dict, nparsed, kindVars, lexemeVars, lex, parserVars, pc>>

NextTallyWord == \E w \in TallyWordInputs, count \in 1..MaxCount : TallyWordCall(w, count)

SpecTallyWord == InitTallyWord /\ [][NextTallyWord]_vars

-----------------------------------------------------------------------------
(* The two classifiers on the same word: Kind::from classifies it, and a    *)
(* new tally is handed the word, which it classifies as it stores it.       *)

InitCategory ==
    /\ word \in WordsUpTo(KindAlphabet, MaxKindLen)
    /\ kind = "none"
    /\ pc = "start"
    /\ TallyIdle
    /\ LexemeIdle
    /\ LexIdle
    /\ ParserIdle

NextCategory ==
    \/ Classify
    \/ \E count \in 1..MaxCount : pc = "classified" /\ TallyWordCall(word, count)

SpecCategory == InitCategory /\ [][NextCategory]_vars

-----------------------------------------------------------------------------
(* A WordTally: parse_text and the passes, in any order.  The passes visit *)
(* the keys they collected in the order the hash map yields them, which is *)
(* any order.                                                              *)

InitTally ==
    /\ words = EmptyMap
    /\ dict \in TallyDicts
    /\ last = NoOp
    /\ hist = <<>>
    /\ nparsed = 0
    /\ KindIdle
    /\ LexemeIdle
    /\ LexIdle
    /\ ParserIdle
    /\ pc = "tally"

ParseText(txt) ==
    /\ nparsed < MaxParses
    /\ nparsed' = nparsed + 1
    /\ words' = parse_text(words, txt)
    /\ last' = [op |-> "parse_text", before |-> words, arg |-> txt, count |-> 0]
    /\ UNCHANGED <<dict, hist, kindVars, lexemeVars, lex, parserVars, pc>>

TrimPeriods ==
    /\ \E keys \in Orders(trim_periods_keys(words, dict)) :
          words' = trim_periods_loop(words, dict, keys)
    /\ last' = [op |-> "trim_periods", before |-> words, arg |-> <<>>, count |-> 0]
    /\ UNCHANGED <<dict, hist, nparsed, kindVars, lexemeVars, lex, parserVars, pc>>

SplitUnknownCompounds ==
    /\ \E keys \in Orders(compound_keys(words, dict)) :
          words' = split_unknown_compounds_loop(words, keys)
    /\ last' = [op |-> "split_unknown_compounds", before |-> words, arg |-> <<>>, count |-> 0]
    /\ UNCHANGED <<dict, hist, nparsed, kindVars, lexemeVars, lex, parserVars, pc>>

SplitUnknownContractions ==
    /\ \E keys \in Orders(contraction_keys(words, dict)) :
          words' = split_unknown_contractions_loop(words, keys)
    /\ last' = [op |-> "split_unknown_contractions", before |-> words, arg |-> <<>>, count |-> 0]
    /\ UNCHANGED <<dict, hist, nparsed, kindVars, lexemeVars, lex, parserVars, pc>>

CheckDict ==
    /\ words' = check_dict(words, dict)
    /\ last' = [op |-> "check_dict", before |-> words, arg |-> <<>>, count |-> 0]
    /\ UNCHANGED <<dict, hist, nparsed, kindVars, lexemeVars, lex, parserVars, pc>>

NextTally ==
    \/ \E txt \in TallyTexts : ParseText(txt)
    \/ TrimPeriods
    \/ SplitUnknownCompounds
    \/ SplitUnknownContractions
    \/ CheckDict

SpecTally == InitTally /\ [][NextTally]_vars

-----------------------------------------------------------------------------
(* Lexeme::try_from applied to the lines of a small dictionary and to every *)
(* line made of a short lemma and one of the endings                        *)

MaxLemmaLen == 3

LemmaAlphabet == {"a", "b", "y", "z", "U+00E9", "U+00E6", PRIVATE_USE}

LineEndings == {Str(":N"), Str(":V"), Str(":A"), Str(":N.s"), Str(":V.z"), Str(":Q"),
                Str(":N,-as"), Str("")}

DictionaryLines == {
    Str("addendum:N,-da"),
    Str("try:V"),
    Str("caf") \o <<"U+00E9">> \o Str(":N"),
    Str("fa") \o <<"U+00E7">> \o Str("ade:N"),
    Str("appliqu") \o <<"U+00E9">> \o Str(":V,-") \o <<"U+00E9">> \o Str("s,-")
        \o <<"U+00E9">> \o Str("ing,-") \o <<"U+00E9">> \o Str("d"),
    Str("an") \o <<"U+00E6">> \o Str("sthetize:V.z"),
    Str("china:N"),
    Str("China:N.n"),
    Str("bear:N"),
    Str("bear:V,bore,borne"),
    StrQ("o'clock:Av"),
    Str("stop:V"),
    Str("quiz:V"),
    Str("big:A"),
    Str("man:N,men"),
    Str("analysis:N"),
    Str("beautiful:A"),
    Str("dust:N.s"),
    Str("organize:V.z"),
    Str("try:V,-q"),
    Str("wish:V"),
    Str("watch:V"),
    Str("fix:V"),
    Str("pass:V"),
    Str("agree:V"),
    Str("die:V"),
    Str("hope:V"),
    Str("play:V"),
    Str("equip:V"),
    Str("visit:V"),
    Str(":N") }

LexemeLines ==
    DictionaryLines
    \cup {lemma \o ending : lemma \in WordsUpTo(LemmaAlphabet, MaxLemmaLen),
                            ending \in LineEndings}

InitLexeme ==
    /\ line \in LexemeLines
    /\ lexeme = Err
    /\ irr = NoIrregular
    /\ pc = "start"
    /\ KindIdle
    /\ TallyIdle
    /\ LexIdle
    /\ ParserIdle

LexemeParse ==
    /\ pc = "start"
    /\ lexeme' = Lexeme_try_from(line)
    /\ pc' = "parsed"
    /\ UNCHANGED <<line, irr, kindVars, tallyVars, lex, parserVars>>

NextLexeme == LexemeParse

SpecLexeme == InitLexeme /\ [][NextLexeme]_vars

-----------------------------------------------------------------------------
(* An irregular form of a dictionary line: the token is decoded against the *)
(* lemma and encoded for storage (Lexeme::try_from), and the stored token   *)
(* is decoded again when the forms are built (Lexeme::build_inflected)      *)

MaxIrregularLen == 5

IrregularAlphabet == {"a", "d", "-"}

IrregularLemmas ==
    WordsUpTo(IrregularAlphabet, MaxIrregularLen)
    \cup {Str("addendum"), Str("man"), Str("goose"), Str("applique"),
          Str("appliqu") \o <<"U+00E9">>, Str("caf") \o <<"U+00E9">>, Str("criterion")}

IrregularTokens ==
    {Str("-") \o w : w \in WordsUpTo(IrregularAlphabet \cup {"U+00E9"}, 2)}
    \cup {Str("-da"), Str("men"), Str("geese"), Str("add"), Str("a"),
          Str("-") \o <<"U+00E9">> \o Str("s"), Str("-ed"), Str("-s"), Str("-a"),
          Str("-ia"), Str("addenda")}

InitIrregular ==
    /\ \E lemma \in IrregularLemmas, token \in IrregularTokens :
          irr = [NoIrregular EXCEPT !.step = "token", !.lemma = lemma, !.token = token]
    /\ line = <<>>
    /\ lexeme = Err
    /\ pc = "irregular"
    /\ KindIdle
    /\ TallyIdle
    /\ LexIdle
    /\ ParserIdle

\* Lexeme::try_from, line 151: the token of the line is decoded
IrregularDecode ==
    /\ irr.step = "token"
    /\ irr' = [irr EXCEPT !.step = "decoded",
                          !.decoded = decode_irregular(irr.lemma, irr.token)]
    /\ UNCHANGED <<line, lexeme, kindVars, tallyVars, lex, parserVars, pc>>

\* Lexeme::try_from, line 152: the form is encoded and stored
IrregularEncode ==
    /\ irr.step = "decoded"
    /\ irr.decoded.ok
    /\ irr' = [irr EXCEPT !.step = "encoded",
                          !.encoded = encode_irregular(irr.lemma, irr.decoded.val)]
    /\ UNCHANGED <<line, lexeme, kindVars, tallyVars, lex, parserVars, pc>>

\* Lexeme::build_inflected, line 356: the stored token is decoded
IrregularRedecode ==
    /\ irr.step = "encoded"
    /\ irr' = [irr EXCEPT !.step = "redecoded",
                          !.redecoded = decode_irregular(irr.lemma, irr.encoded)]
    /\ UNCHANGED <<line, lexeme, kindVars, tallyVars, lex, parserVars, pc>>

NextIrregular == IrregularDecode \/ IrregularEncode \/ IrregularRedecode

SpecIrregular == InitIrregular /\ [][NextIrregular]_vars

-----------------------------------------------------------------------------
(* A Lexicon: lexemes inserted in any order *)

MaxInserts == 3

LexiconLines == <<
    Str("china:N"),
    Str("China:N.n"),
    Str("bear:N"),
    Str("bear:V,bore,borne"),
    StrQ("o'clock:Av"),
    Str("o'clock:Av"),
    Str("organize:V.z"),
    Str("as:C"),
    Str("a:N"),
    Str("as:C.z"),
    Str("say:V,said,said") >>

LexiconLexemes == {Lexeme_try_from(LexiconLines[i]).val : i \in DOMAIN LexiconLines}

InitLex ==
    /\ lex = Lexicon_new
    /\ pc = "lexicon"
    /\ KindIdle
    /\ TallyIdle
    /\ LexemeIdle
    /\ ParserIdle

Insert(lx) ==
    /\ Len(lex.words) < MaxInserts
    /\ lex' = Lexicon_insert(lex, lx)
    /\ UNCHANGED <<kindVars, tallyVars, lexemeVars, parserVars, pc>>

NextLex == \E lx \in LexiconLexemes : Insert(lx)

SpecLex == InitLex /\ [][NextLex]_vars

-----------------------------------------------------------------------------
(* A Parser over a reader: next() called until it returns None, and after.  *)
(* The reader holds one of the texts, encoded, or bytes that are not UTF-8. *)

MaxTextLen == 3

TextAlphabet == {"a", "I", "-", ".", "'", " "}

ParserTexts ==
    WordsUpTo(TextAlphabet, MaxTextLen)
    \cup {
        Str("It's a test-case."),
        StrQ("It's a test-case."),
        Str("U.S.A. went to NATO"),
        Str("3rd, IV, 42, na") \o <<"U+00EF">> \o Str("ve"),
        Str("well-known x--y"),
        Str("don") \o <<MODIFIER_LETTER_APOSTROPHE>> \o Str("t"),
        Str("dogs") \o <<FULLWIDTH_APOSTROPHE>> \o Str(" o'clock"),
        Str("a") \o <<ZERO_WIDTH_SPACE>> \o Str("b") \o <<BOM>> \o Str("A. e.g."),
        StrQ("he'd've 'tis rock'n' roll"),
        Str("caf") \o <<"U+00E9">> \o Str("\t") \o <<PRIVATE_USE>> \o Str("!\n") }

IllFormedInputs == {
    <<"xFF">>,
    <<"a", "xFF">>,
    <<"a", "xE2", "x80">>,
    <<"x80", "a", "b", "c", "d">>,
    <<"a", " ", "xE2", "a", "x80", "x99", "b", " ", "c">>,
    <<"xFF", "xFF", "xFF", "xFF", "xFF", "a", ".">> }

\* what the reader holds: its bytes, and the characters they encode when they
\* are well-formed UTF-8
ParserInputs ==
    {[chars |-> t, bytes |-> Utf8(t), utf8 |-> TRUE] : t \in ParserTexts}
    \cup {[chars |-> <<>>, bytes |-> b, utf8 |-> FALSE] : b \in IllFormedInputs}

ParserLexiconLines == <<
    Str("it:Pn"),
    Str("be:V,am,is,are,was,were,been,being"),
    Str("a:D"),
    Str("test:N"),
    Str("case:N"),
    Str("not:Av"),
    Str("do:V,does,doing,did,done"),
    Str("well-known:A"),
    Str("o'clock:Av") >>

ParserLexicons == {Lexicon_new, make_lexicon(Lexicon_new, ParserLexiconLines)}

InitParser ==
    /\ input \in ParserInputs
    /\ bytes = input.bytes
    /\ lex \in ParserLexicons
    /\ text = <<>>
    /\ chunks = <<>>
    /\ yielded = <<>>
    /\ ret = NoCall
    /\ split = NoSplit
    /\ BuiltinIdle
    /\ splitter = NoSplitter
    /\ ChunkIdle
    /\ pc = "parser"
    /\ KindIdle
    /\ TallyIdle
    /\ LexemeIdle

\* Parser::next
ParserNext ==
    \E P0 \in {[bytes |-> bytes, text |-> text, chunks |-> chunks]} :
    \E P1 \in {IF chunks = <<>> THEN read_chunk(lex, P0) ELSE P0} :
        /\ bytes' = P1.bytes
        /\ text' = P1.text
        /\ IF P1.chunks # <<>>
           THEN /\ chunks' = Tail(P1.chunks)
                /\ yielded' = Append(yielded, Head(P1.chunks))
                /\ ret' = [called |-> TRUE, some |-> TRUE, item |-> Head(P1.chunks),
                           read |-> Len(bytes) - Len(P1.bytes)]
           ELSE /\ chunks' = <<>>
                /\ yielded' = yielded
                /\ ret' = [called |-> TRUE, some |-> FALSE, item |-> ErrorItem,
                           read |-> Len(bytes) - Len(P1.bytes)]
        /\ UNCHANGED <<input, lex, split, builtinVars, splitter, kindVars, tallyVars, lexemeVars, pc, chunkVars>>

NextParser == ParserNext

SpecParser == InitParser /\ [][NextParser]_vars

-----------------------------------------------------------------------------
(* Parser::push_text on a Parser that has read its whole input into the     *)
(* pending text: the texts are those read_chunk can build, a character at a *)
(* time.                                                                    *)

MaxPendingLen == 4

PendingAlphabet == {"a", "A", "S", ".", "-", "'", "U+00C9"}

\* read_chunk appends c to the pending text t: a Text character always, a
\* hyphen after a text that does not end in one, a dot when it is appendable
Appends(t, c) ==
    \/ Chunk_from_char(c) = "Text"
    \/ c = "-" /\ t # <<>> /\ ~EndsWith(t, <<"-">>)
    \/ c = "." /\ is_dot_appendable(t)

IsPendingText(w) == \A i \in DOMAIN w : Appends(SubSeq(w, 1, i - 1), w[i])

PendingSamples == {
    Str("U.S.A."), Str("NATO"), Str("It's"), StrQ("don't"), Str("ASn't"), Str("AS'll"),
    Str("he'd've"), Str("test-case's"), Str("a-o'clock"), Str("3rd's"), Str("IV's-a"),
    Str("dogs") \o <<FULLWIDTH_APOSTROPHE>>, Str("rock'n'") }

PendingTexts ==
    {w \in WordsUpTo(PendingAlphabet, MaxPendingLen) \cup PendingSamples : IsPendingText(w)}

InitPushText ==
    /\ input \in {[chars |-> t, bytes |-> Utf8(t), utf8 |-> TRUE] : t \in PendingTexts}
    /\ bytes = <<>>
    /\ lex \in ParserLexicons
    /\ text = input.chars
    /\ chunks = <<>>
    /\ yielded = <<>>
    /\ ret = NoCall
    /\ split = NoSplit
    /\ BuiltinIdle
    /\ splitter = NoSplitter
    /\ ChunkIdle
    /\ pc = "push_text"
    /\ KindIdle
    /\ TallyIdle
    /\ LexemeIdle

\* Parser::push_text
PushText ==
    /\ pc = "push_text"
    /\ chunks' = push_text(lex, chunks, text)
    /\ text' = <<>>
    /\ pc' = "pushed"
    /\ UNCHANGED <<input, bytes, yielded, ret, lex, split, builtinVars, splitter, chunkVars,
                   kindVars, tallyVars, lexemeVars>>

NextPushText == PushText

SpecPushText == InitPushText /\ [][NextPushText]_vars

-----------------------------------------------------------------------------
(* A CharSplitter over a reader: next_char called until it returns None,    *)
(* and after.  The reader holds a text, encoded, or any bytes.              *)

MaxReaderBytes == 4

\* characters of one, two and three bytes
CharAlphabet == {"a", "U+00E9", RIGHT_SINGLE_QUOTATION_MARK}

\* the bytes of their encodings
ByteAlphabet == {"a", "xC3", "xA9", "xE2", "x80", "x99"}

CharTexts ==
    WordsUpTo(CharAlphabet, MaxReaderBytes)
    \cup {<<GRINNING_FACE>>, <<"a", GRINNING_FACE, "U+00E9", GRINNING_FACE>>}

\* longer readers: four bytes that form no character and a fifth, a
\* character after a truncated one
LongReaders == {
    <<"x80", "a", "a", "a", "a">>,
    <<"xE2", "x80", "xE2", "x80", "x99", "a">>,
    <<"xC3", "a", "xC3", "xA9", "xC3", "xA9">>,
    <<"xF0", "x9F", "x98">>,
    <<"xF0", "x9F", "x98", "a", "x80">> }

CharInputs ==
    {[chars |-> t, bytes |-> Utf8(t), utf8 |-> TRUE] : t \in CharTexts}
    \cup {[chars |-> <<>>, bytes |-> b, utf8 |-> FALSE] :
             b \in (WordsUpTo(ByteAlphabet, MaxReaderBytes) \cup LongReaders)
                      \ {Utf8(t) : t \in CharTexts}}

\* one item of the CharSplitter: Ok(c) or the error
OkChar(c) == [ok |-> TRUE, c |-> c]

ErrChar == [ok |-> FALSE, c |-> ""]

InitChars ==
    /\ input \in CharInputs
    /\ bytes = input.bytes
    /\ text = <<>>
    /\ chunks = <<>>
    /\ yielded = <<>>
    /\ ret = NoCall
    /\ split = NoSplit
    /\ BuiltinIdle
    /\ splitter = NoSplitter
    /\ ChunkIdle
    /\ pc = "chars"
    /\ KindIdle
    /\ TallyIdle
    /\ LexemeIdle
    /\ LexIdle

\* CharSplitter::next_char
CharNext ==
    /\ pc = "chars"
    /\ \E r \in {next_char(bytes)} :
          /\ bytes' = r.bytes
          /\ ret' = [called |-> TRUE, some |-> ~r.eof,
                     item |-> IF r.ok THEN OkChar(r.c) ELSE ErrChar,
                     read |-> Len(bytes) - Len(r.bytes)]
          /\ yielded' = IF r.eof THEN yielded
                        ELSE Append(yielded, IF r.ok THEN OkChar(r.c) ELSE ErrChar)
    /\ UNCHANGED <<input, text, chunks, lex, split, builtinVars, splitter, chunkVars,
                   kindVars, tallyVars, lexemeVars, pc>>

NextChars == CharNext

SpecChars == InitChars /\ [][NextChars]_vars

-----------------------------------------------------------------------------
(* The two tokenizers on the same input: chunk::parse_text drives a handler *)
(* that records its calls, one character at a time, and a Parser over the   *)
(* same bytes is called until it returns None.                              *)

ChunkTexts ==
    ParserTexts
    \cup {
        <<"U+00E6">>,
        Str("c") \o <<"U+00E6">> \o Str("sar's A. B.C. a-b") }

ChunkInputs ==
    ParserInputs
    \cup {[chars |-> t, bytes |-> Utf8(t), utf8 |-> TRUE] : t \in ChunkTexts}

InitChunk ==
    /\ input \in ChunkInputs
    /\ bytes = input.bytes
    /\ lex \in ParserLexicons
    /\ text = <<>>
    /\ chunks = <<>>
    /\ yielded = <<>>
    /\ ret = NoCall
    /\ handler = [bytes |-> input.bytes, chunk |-> <<>>, calls |-> <<>>, result |-> "running"]
    /\ split = NoSplit
    /\ BuiltinIdle
    /\ splitter = NoSplitter
    /\ pc = "chunk"
    /\ KindIdle
    /\ TallyIdle
    /\ LexemeIdle

\* chunk::parse_text: the next character of the for loop, or its end
ChunkIteration ==
    /\ pc = "chunk"
    /\ handler.result = "running"
    /\ handler' = parse_text_iteration(handler)
    /\ UNCHANGED <<lex, readerVars, split, builtinVars, splitter, kindVars, tallyVars,
                   lexemeVars, pc>>

NextChunk == ChunkIteration \/ ParserNext

SpecChunk == InitChunk /\ [][NextChunk]_vars

-----------------------------------------------------------------------------
(* contractions::split, one iteration of its loop at a time *)

MaxSplitLen == 3

Apostrophes ==
    {APOSTROPHE, MODIFIER_LETTER_APOSTROPHE, RIGHT_SINGLE_QUOTATION_MARK, FULLWIDTH_APOSTROPHE}

SplitAlphabet == {APOSTROPHE, RIGHT_SINGLE_QUOTATION_MARK, "s", "S", "n", "t"}

\* the word written with the apostrophe ap, in upper case when up holds
Written(w, ap, up) ==
    [i \in DOMAIN w |->
        IF is_apostrophe(w[i]) THEN ap
        ELSE IF up /\ w[i] \in AsciiLower
        THEN UpperLetters[CHOOSE j \in DOMAIN LowerLetters : LowerLetters[j] = w[i]]
        ELSE w[i]]

SplitFixedWords ==
    {StrQ("ain't"), StrQ("can't"), StrQ("shan't"), StrQ("won't"), StrQ("I'm"), StrQ("he's"),
     StrQ("it's"), StrQ("she's"), StrQ("that's"), StrQ("there's"), StrQ("what's"),
     StrQ("who's"), StrQ("'tis"), StrQ("'twas"), StrQ("'twill"), StrQ("m'dear"),
     StrQ("m'lady"), StrQ("m'lord"), StrQ("don't"), StrQ("he'd've"), StrQ("rock'n'"),
     StrQ("we're"), StrQ("I'll"), StrQ("dogs'"), StrQ("'em"), StrQ("o'clock"),
     StrQ("'n'"), Str("hello"), Str("caf") \o <<"U+00E9">> \o StrQ("'s")}

SplitWords ==
    WordsUpTo(SplitAlphabet, MaxSplitLen)
    \cup {Written(w, ap, up) : w \in SplitFixedWords, ap \in Apostrophes, up \in BOOLEAN}
    \cup {StrQ("He's"), StrQ("It's"), StrQ("Can't"), StrQ("i'm"), StrQ("M'Lady")}

InitSplit ==
    /\ \E w \in SplitWords :
          split = [word |-> w, words |-> <<w>>, ex |-> <<>>, hits |-> {}, done |-> FALSE]
    /\ ReaderIdle
    /\ BuiltinIdle
    /\ splitter = NoSplitter
    /\ ChunkIdle
    /\ pc = "split"
    /\ KindIdle
    /\ TallyIdle
    /\ LexemeIdle
    /\ LexIdle

\* one iteration of the loop whose popped word matches an entry of the table
SplitExpand ==
    /\ split.words # <<>>
    /\ \E r \in {contractions_split_contraction(Last(split.words))} :
          /\ r.hit
          /\ split' = [split EXCEPT
                 !.words = SubSeq(split.words, 1, Len(split.words) - 1) \o r.push,
                 !.hits = split.hits \cup {first_hit(Last(split.words))}]
    /\ UNCHANGED <<readerVars, builtinVars, splitter, kindVars, tallyVars, lexemeVars, lex, pc, chunkVars>>

\* one iteration of the loop whose popped word matches no entry
SplitEmit ==
    /\ split.words # <<>>
    /\ ~contractions_split_contraction(Last(split.words)).hit
    /\ split' = [split EXCEPT
           !.words = SubSeq(split.words, 1, Len(split.words) - 1),
           !.ex = Append(split.ex, Last(split.words))]
    /\ UNCHANGED <<readerVars, builtinVars, splitter, kindVars, tallyVars, lexemeVars, lex, pc, chunkVars>>

\* the work stack is empty: split returns ex
SplitReturn ==
    /\ split.words = <<>>
    /\ ~split.done
    /\ pc = "split"
    /\ split' = [split EXCEPT !.done = TRUE]
    /\ UNCHANGED <<readerVars, builtinVars, splitter, kindVars, tallyVars, lexemeVars, lex, pc, chunkVars>>

NextSplit == SplitExpand \/ SplitEmit \/ SplitReturn

SpecSplit == InitSplit /\ [][NextSplit]_vars

\* the loop of split is sequential code: an iteration that can run does run
SpecSplitFair == SpecSplit /\ WF_vars(NextSplit)


-----------------------------------------------------------------------------
(* lex::builtin() called by several threads. LEXICON is a LazyLock: its     *)
(* Once is Incomplete, Running, Complete or Poisoned, and make_builtin is   *)
(* run by the thread that moves it from Incomplete to Running.              *)

NumThreads == 3

Threads == 1..NumThreads

\* the lines of res/english.csv: files in the dictionary format, and one file
\* with a line that Lexeme::try_from rejects
BuiltinFiles == {
    <<Str("china:N"), Str("bear:V,bore,borne")>>,
    <<Str("a:D")>>,
    <<Str("china:N"), Str("bear:Q"), Str("a:D")>> }

NoThread == [pc |-> "start", local |-> Lexicon_new, line |-> 0, seen |-> None]

\* LazyLock::force: what a caller does in each state of the Once, that of a
\* thread which has met the Once running
force_unguarded(state) ==
    CASE state = "Incomplete" -> "init"
      [] state = "Running" -> "init"
      [] state = "Complete" -> "read"
      [] state = "Poisoned" -> "panic"

\* LazyLock::force: what a caller does in each state of the Once
force(state) ==
    CASE state = "Incomplete" -> "init"
      [] state = "Running" -> "wait"
      [] state = "Complete" -> "read"
      [] state = "Poisoned" -> "panic"

InitBuiltin ==
    /\ \E file \in BuiltinFiles : once = [NoOnce EXCEPT !.lines = file]
    /\ threads = [t \in Threads |-> NoThread]
    /\ lex = Lexicon_new
    /\ split = NoSplit
    /\ splitter = NoSplitter
    /\ ChunkIdle
    /\ pc = "builtin"
    /\ ReaderIdle
    /\ KindIdle
    /\ TallyIdle
    /\ LexemeIdle

\* what a caller does once it has read the state of the Once
Forced(t) ==
    \E outcome \in {force(once.state)} :
        /\ threads' = [threads EXCEPT
               ![t].pc = CASE outcome = "init" -> "make_builtin"
                           [] outcome = "wait" -> "wait"
                           [] outcome = "read" -> "returned"
                           [] outcome = "panic" -> "panicked",
               ![t].line = IF outcome = "init" THEN 1 ELSE @]
        /\ once' = IF outcome = "init"
                   THEN [once EXCEPT !.state = "Running", !.started = @ + 1]
                   ELSE once

\* builtin(): a thread dereferences LEXICON
Call(t) ==
    /\ threads[t].pc = "start"
    /\ Forced(t)
    /\ UNCHANGED <<lex, readerVars, split, splitter, kindVars, tallyVars, lexemeVars, pc, chunkVars>>

\* a thread that waited on the running Once goes on when the Once has settled
Wake(t) ==
    /\ threads[t].pc = "wait"
    /\ force(once.state) # "wait"
    /\ Forced(t)
    /\ UNCHANGED <<lex, readerVars, split, splitter, kindVars, tallyVars, lexemeVars, pc, chunkVars>>

\* make_builtin: one iteration of its loop, into the local lexicon
BuildLine(t) ==
    /\ threads[t].pc = "make_builtin"
    /\ threads[t].line <= Len(once.lines)
    /\ \E r \in {Lexeme_try_from(once.lines[threads[t].line])} :
          IF r.ok
          THEN /\ threads' = [threads EXCEPT
                      ![t].local = Lexicon_insert(@, r.val),
                      ![t].line = @ + 1]
               /\ once' = once
          ELSE /\ threads' = [threads EXCEPT ![t].pc = "panicked"]
               /\ once' = [once EXCEPT !.state = "Poisoned"]
    /\ UNCHANGED <<lex, readerVars, split, splitter, kindVars, tallyVars, lexemeVars, pc, chunkVars>>

\* make_builtin returns: the value is stored and the Once completes
Store(t) ==
    /\ threads[t].pc = "make_builtin"
    /\ threads[t].line > Len(once.lines)
    /\ lex' = threads[t].local
    /\ once' = [once EXCEPT !.state = "Complete", !.runs = @ + 1]
    /\ threads' = [threads EXCEPT ![t].pc = "returned"]
    /\ UNCHANGED <<readerVars, split, splitter, kindVars, tallyVars, lexemeVars, pc, chunkVars>>

\* a caller reads the lexicon through the reference that builtin() returned
Observe(t) ==
    /\ threads[t].pc = "returned"
    /\ threads' = [threads EXCEPT ![t].pc = "used", ![t].seen = Some(lex)]
    /\ UNCHANGED <<once, lex, readerVars, split, splitter, kindVars, tallyVars, lexemeVars, pc, chunkVars>>

NextBuiltin ==
    \E t \in Threads : Call(t) \/ Wake(t) \/ BuildLine(t) \/ Store(t) \/ Observe(t)

SpecBuiltin == InitBuiltin /\ [][NextBuiltin]_vars

-----------------------------------------------------------------------------
(* A WordSplitter over a reader: next() called until it returns None, and   *)
(* after.                                                                   *)

MaxChunkTextLen == 3

ChunkAlphabet == {"a", "b", ".", "-", ",", "!", " ", BOM}

SplitterTexts ==
    WordsUpTo(ChunkAlphabet, MaxChunkTextLen)
    \cup {Str("a \t\n b"), Str("a?b!"), Str("abc 123"), Str("don't stop"),
          Str("caf") \o <<"U+00E9", ESCAPE>> \o Str("x"),
          Str("a") \o <<ZERO_WIDTH_SPACE>> \o Str("b"),
          Str("it") \o <<RIGHT_SINGLE_QUOTATION_MARK>> \o Str("s"),
          <<FULLWIDTH_APOSTROPHE, MODIFIER_LETTER_APOSTROPHE, "U+0663">>}

SplitterInputs ==
    {[chars |-> t, bytes |-> Utf8(t), utf8 |-> TRUE] : t \in SplitterTexts}
    \cup {[chars |-> <<>>, bytes |-> b, utf8 |-> FALSE] : b \in IllFormedInputs}

InitSplitter ==
    /\ \E i \in SplitterInputs :
          splitter = [NoSplitter EXCEPT !.input = i, !.bytes = i.bytes]
    /\ split = NoSplit
    /\ pc = "splitter"
    /\ ReaderIdle
    /\ BuiltinIdle
    /\ ChunkIdle
    /\ KindIdle
    /\ TallyIdle
    /\ LexemeIdle
    /\ LexIdle

\* WordSplitter::next, called at most once more than the input has bytes
SplitterNext ==
    /\ pc = "splitter"
    /\ splitter.calls <= Len(splitter.input.bytes) + 1
    /\ \E r \in {WordSplitter_next(splitter.bytes, splitter.next)} :
          splitter' = [splitter EXCEPT
              !.bytes = r.bytes,
              !.next = r.next,
              !.ret = r.item,
              !.calls = @ + 1,
              !.yielded = IF r.item.some THEN Append(@, r.item) ELSE @]
    /\ UNCHANGED <<readerVars, split, builtinVars, kindVars, tallyVars, lexemeVars, lex, pc, chunkVars>>

NextSplitter == SplitterNext

SpecSplitter == InitSplitter /\ [][NextSplitter]_vars

-----------------------------------------------------------------------------
(* Claims about contractions::split *)

\* the Full entries of the table that the word equals, under ASCII case
\* folding and apostrophe equivalence
C14_FullEntries(w) ==
    {k \in DOMAIN CONTRACTIONS :
        CONTRACTIONS[k].t = "Full" /\ equals_contraction(CONTRACTIONS[k].p, w)}

\* C14: split of a word that equals the pattern of a Full(pattern, left, right)
\* entry is matched by that entry and by no other, and returns two tokens, left
\* and right.
C14_FullExpands ==
    (pc = "split" /\ split.done) =>
        \A k \in C14_FullEntries(split.word) :
            /\ split.hits = {k}
            /\ Len(split.ex) = 2
            /\ \E i, j \in 1..2 :
                  /\ i # j
                  /\ split.ex[i] = CONTRACTIONS[k].a
                  /\ split.ex[j] = CONTRACTIONS[k].b

\* "HE'S" has been split into is and he
C14_Witness ==
    /\ pc = "split"
    /\ split.done
    /\ split.word = Str("HE'S")
    /\ split.ex = <<Str("is"), Str("he")>>
    /\ C14_FullEntries(split.word) # {}

\* the two tokens of a Full entry are returned in the order right, left: the
\* stack gives back the token pushed last first
C14_RightThenLeft ==
    (pc = "split" /\ split.done) =>
        \A k \in C14_FullEntries(split.word) :
            split.ex = <<CONTRACTIONS[k].b, CONTRACTIONS[k].a>>


\* C15: split terminates for every word and does not fail, and a word that
\* matches no entry of the table, as every word without an apostrophe does, is
\* returned as the one-element list holding it.
C15_SplitTerminates ==
    /\ <>(pc = "split" /\ split.done)
    /\ [](\A k \in DOMAIN CONTRACTIONS :
             CONTRACTIONS[k].t \in {"Suffix", "SuffixReplacement"}
                 => Len(CONTRACTIONS[k].p) - 1 >= 0)
    /\ []((~\E i \in DOMAIN split.word : is_apostrophe(split.word[i]))
             => first_hit(split.word) = 0)
    /\ []((split.done /\ first_hit(split.word) = 0) => split.ex = <<split.word>>)

\* the Prefix rule has pushed an apostrophe back and the stack has emptied
C15_Witness ==
    /\ pc = "split"
    /\ split.done
    /\ split.word = StrQ("'em")
    /\ \E k \in split.hits : CONTRACTIONS[k].t = "Prefix"
    /\ split.ex = <<<<>>, <<>>, Str("em")>>

\* a word made only of apostrophes has been split
C15_WitnessApostrophes ==
    /\ pc = "split"
    /\ split.done
    /\ split.word = <<APOSTROPHE, RIGHT_SINGLE_QUOTATION_MARK>>
    /\ split.ex = <<<<>>, <<>>, <<>>>>

\* a word without an apostrophe has been returned alone
C15_WitnessNoMatch ==
    /\ pc = "split"
    /\ split.done
    /\ split.word = Str("hello")
    /\ split.ex = <<Str("hello")>>


\* a word with its apostrophes written as U+2019 and its ASCII letters in
\* lower case
C16_Fold(w) ==
    [i \in DOMAIN w |->
        IF is_apostrophe(w[i]) THEN RIGHT_SINGLE_QUOTATION_MARK
        ELSE to_ascii_lowercase(w[i])]

\* the entries that match during split, one per iteration of its loop
RECURSIVE C16_Hits(_)
C16_Hits(ws) ==
    IF ws = <<>> THEN {}
    ELSE With(contractions_split_contraction(Last(ws)),
              LAMBDA r :
                  IF r.hit
                  THEN {first_hit(Last(ws))}
                       \cup C16_Hits(SubSeq(ws, 1, Len(ws) - 1) \o r.push)
                  ELSE C16_Hits(SubSeq(ws, 1, Len(ws) - 1)))

\* the words that differ from w only in their apostrophes and ASCII case
C16_Alike(w) == {v \in SplitWords : Len(v) = Len(w) /\ C16_Fold(v) = C16_Fold(w)}

\* C16: two words that differ only in which apostrophe they use and in ASCII
\* letter case are matched by the same entries of the table, and their
\* expansions differ only in those respects.
C16_SplitInsensitive ==
    (pc = "split" /\ split.done) =>
        \A v \in C16_Alike(split.word) :
            /\ first_hit(v) = first_hit(split.word)
            /\ C16_Hits(<<v>>) = split.hits
            /\ With(contractions_split(v),
                    LAMBDA e : /\ Len(e) = Len(split.ex)
                               /\ \A i \in DOMAIN e : C16_Fold(e[i]) = C16_Fold(split.ex[i]))

\* "DON'T" has been split, and the word set holds "don't" written with U+FF07
C16_Witness ==
    /\ pc = "split"
    /\ split.done
    /\ split.word = Str("DON'T")
    /\ split.ex = <<Str("DO"), Str("not")>>
    /\ Str("don") \o <<FULLWIDTH_APOSTROPHE>> \o Str("t") \in C16_Alike(split.word)
    /\ contractions_split(Str("don") \o <<FULLWIDTH_APOSTROPHE>> \o Str("t"))
           = <<Str("do"), Str("not")>>


-----------------------------------------------------------------------------
(* Claims about the builtin lexicon *)

\* the lexicon that make_builtin returns for the lines of the file
C17_Builtin == make_lexicon(Lexicon_new, once.lines)

\* C17: whatever the interleaving of the callers, make_builtin is started and
\* completed at most once, every caller that builtin() has returned to holds
\* the completed lexicon, and what a caller reads through its reference is the
\* fully built lexicon.
C17_BuiltOnce ==
    pc = "builtin" =>
        /\ once.started <= 1
        /\ once.runs <= 1
        /\ \A t \in Threads :
              /\ threads[t].pc \in {"returned", "used"}
                    => (once.state = "Complete" /\ once.runs = 1 /\ lex = C17_Builtin)
              /\ threads[t].seen.some => threads[t].seen.val = C17_Builtin

\* three callers raced: one built the lexicon while another waited, and all
\* three have read the two-line lexicon
C17_Witness ==
    /\ pc = "builtin"
    /\ Len(once.lines) = 2
    /\ once.runs = 1
    /\ \A t \in Threads : threads[t].pc = "used" /\ threads[t].seen = Some(C17_Builtin)
    /\ Len(C17_Builtin.words) = 2

\* a caller waits while another thread is inside make_builtin
C17_WitnessWaiting ==
    /\ pc = "builtin"
    /\ once.state = "Running"
    /\ \E t, u \in Threads :
          /\ threads[t].pc = "make_builtin"
          /\ threads[t].line = 2
          /\ threads[u].pc = "wait"


-----------------------------------------------------------------------------
(* Claims about the WordSplitter *)

\* the WordSplitter has read a well-formed input to its end
C20_Finished ==
    /\ pc = "splitter"
    /\ splitter.input.utf8
    /\ splitter.calls > 0
    /\ ~splitter.ret.some
    /\ splitter.bytes = <<>>

\* the chunks yielded
C20_Yielded == [i \in DOMAIN splitter.yielded |-> splitter.yielded[i].chunk]

\* the characters of a text that are neither whitespace, control nor U+FEFF
C20_Kept(t) ==
    SelectSeq(t, LAMBDA c : ~(is_whitespace(c) \/ is_control(c) \/ c = BOM))

\* a character of a chunk: alphanumeric, an apostrophe, '-' or '.'
C20_ChunkChar(c) ==
    is_alphanumeric(c) \/ c \in {"'", "U+02BC", "U+2019", "U+FF07", "-", "."}

\* the chunks of a text: out holds the chunks that are closed, cur the run of
\* chunk characters that is open
RECURSIVE C20_Chunks(_, _, _)
C20_Chunks(t, cur, out) ==
    LET closed == IF cur = <<>> THEN out ELSE Append(out, cur)
    IN  IF t = <<>> THEN closed
        ELSE IF C20_Kept(<<Head(t)>>) = <<>>
        THEN With(closed, LAMBDA o : C20_Chunks(Tail(t), <<>>, o))
        ELSE IF C20_ChunkChar(Head(t))
        THEN With(Append(cur, Head(t)), LAMBDA r : C20_Chunks(Tail(t), r, out))
        ELSE With(Append(closed, <<Head(t)>>), LAMBDA o : C20_Chunks(Tail(t), <<>>, o))

\* C20: for a well-formed input the WordSplitter yields non-empty chunks whose
\* concatenation is the input without its whitespace, control and U+FEFF
\* characters; each chunk is a maximal run of chunk characters or one other
\* symbol.
C20_SplitterChunks ==
    C20_Finished =>
        /\ \A i \in DOMAIN splitter.yielded :
              /\ splitter.yielded[i].ok
              /\ splitter.yielded[i].chunk # <<>>
              /\ \/ \A j \in DOMAIN C20_Yielded[i] : C20_ChunkChar(C20_Yielded[i][j])
                 \/ Len(C20_Yielded[i]) = 1
        /\ Concat(C20_Yielded) = C20_Kept(splitter.input.chars)
        /\ C20_Yielded = C20_Chunks(splitter.input.chars, <<>>, <<>>)

\* 'a,b' has been split into a , b
C20_Witness ==
    /\ C20_Finished
    /\ splitter.input.chars = Str("a,b")
    /\ C20_Yielded = <<Str("a"), Str(","), Str("b")>>

\* the other examples: three chunks for '!!!', one for '...' and for 'a-b',
\* and whitespace between two runs
C20_Examples ==
    C20_Finished =>
        /\ splitter.input.chars = Str("!!!") => C20_Yielded = <<Str("!"), Str("!"), Str("!")>>
        /\ splitter.input.chars = Str("...") => C20_Yielded = <<Str("...")>>
        /\ splitter.input.chars = Str("a-b") => C20_Yielded = <<Str("a-b")>>
        /\ splitter.input.chars = Str("a \t\n b") => C20_Yielded = <<Str("a"), Str("b")>>
        /\ splitter.input.chars = Str("a?b!")
              => C20_Yielded = <<Str("a"), Str("?"), Str("b"), Str("!")>>
        /\ splitter.input.chars = <<>> => C20_Yielded = <<>>

-----------------------------------------------------------------------------
(* Claims about the classifier *)

\* The rules of the classifier as the specification lists them, 1 to 7.
C2_Rule(n, w) ==
    CASE n = 1 -> \E i \in DOMAIN w :
                     /\ is_alphabetic(w[i])
                     /\ ~is_ascii(w[i])
                     /\ w[i] \notin {"'", "U+02BC", "U+2019", "U+FF07"}
      [] n = 2 -> /\ Len(w) >= 3
                  /\ \E suf \in {Str("1st"), Str("1ST"), Str("2nd"), Str("2ND"),
                                 Str("3rd"), Str("3RD"), Str("th"), Str("TH")} :
                        /\ EndsWith(w, suf)
                        /\ \A i \in 1..(Len(w) - Len(suf)) : w[i] \in AsciiDigit
      [] n = 3 -> /\ Len(w) > 0
                  /\ \/ \A i \in DOMAIN w : w[i] \in {"I", "V", "X", "L", "C", "D", "M"}
                     \/ \A i \in DOMAIN w : w[i] \in {"i", "v", "x", "l", "c", "d", "m"}
      [] n = 4 -> \E i \in DOMAIN w : w[i] \in AsciiDigit
      [] n = 5 -> Len(w) >= 2 /\ \A i \in DOMAIN w : is_uppercase(w[i]) \/ w[i] = "."
      [] n = 6 -> /\ Len(w) >= 1
                  /\ is_uppercase(w[1])
                  /\ \E i \in 2..Len(w) : is_lowercase(w[i])
      [] n = 7 -> Len(w) = 1
      [] OTHER -> TRUE

C2_RuleKind == <<"Foreign", "Ordinal", "Roman", "Number", "Acronym", "Proper",
                 "Symbol", "Unknown">>

C2_FirstRule(w) == CHOOSE n \in 1..8 : C2_Rule(n, w) /\ \A m \in 1..(n - 1) : ~C2_Rule(m, w)

\* C2: Kind::from(word) returns the kind of the first rule, in the order
\* Foreign, Ordinal, Roman, Number, Acronym, Proper, Symbol, whose predicate
\* holds for the word, Unknown when none holds, and never Lexicon; so "IV"
\* is Roman, "3rd" is Ordinal, "I" is Roman and the empty word is Unknown.
C2_KindFirstMatch ==
    pc = "classified" =>
        /\ kind = C2_RuleKind[C2_FirstRule(word)]
        /\ kind # "Lexicon"
        /\ word = Str("IV") => kind = "Roman"
        /\ word = Str("3rd") => kind = "Ordinal"
        /\ word = Str("I") => kind = "Roman"
        /\ word = <<>> => kind = "Unknown"

\* "IV" satisfies both the Roman and the Acronym rule and was classified Roman
C2_Witness == pc = "classified" /\ word = Str("IV") /\ kind = "Roman"

-----------------------------------------------------------------------------
(* Claims about the tally *)

RECURSIVE SumOver(_, _)
SumOver(S, f) ==
    IF S = {} THEN 0
    ELSE LET x == CHOOSE y \in S : TRUE IN f[x] + SumOver(S \ {x}, f)

UppercaseIn(w) == Cardinality({i \in DOMAIN w : w[i] \in AsciiUpper \cup NonAsciiUpper})

\* the calls of hist that tallied a valid word under the key k
C3_CallsOf(k) == {i \in DOMAIN hist : is_word_valid(hist[i][1]) /\ to_lowercase(hist[i][1]) = k}

\* the earliest of those calls whose word has the fewest uppercase characters
C3_Kept(k) ==
    CHOOSE i \in C3_CallsOf(k) :
        \A j \in C3_CallsOf(k) :
            \/ UppercaseIn(hist[i][1]) < UppercaseIn(hist[j][1])
            \/ UppercaseIn(hist[i][1]) = UppercaseIn(hist[j][1]) /\ i <= j

\* C3: tally_word on a valid word with key k inserts {seen = count, word,
\* kind of word} when k is absent; when k is present seen grows by the count
\* and the stored word and kind are replaced iff the new variant has strictly
\* fewer uppercase characters.  Hence the stored surface of k is the earliest
\* tallied variant among those with the fewest uppercase characters, and seen
\* is the sum of the counts tallied under k.
C3_TallyWord ==
    /\ (last.op = "tally_word" /\ is_word_valid(last.arg)) =>
          LET w == last.arg
              k == to_lowercase(w)
              B == last.before
          IN  /\ DOMAIN words = (DOMAIN B) \cup {k}
              /\ \A x \in (DOMAIN B) \ {k} : words[x] = B[x]
              /\ k \notin DOMAIN B =>
                    words[k] = [seen |-> last.count, word |-> w, cat |-> CategoryFrom(w)]
              /\ k \in DOMAIN B =>
                    /\ words[k].seen = B[k].seen + last.count
                    /\ IF UppercaseIn(w) < UppercaseIn(B[k].word)
                       THEN words[k].word = w /\ words[k].cat = CategoryFrom(w)
                       ELSE words[k].word = B[k].word /\ words[k].cat = B[k].cat
    /\ (last.op = "tally_word" /\ ~is_word_valid(last.arg)) => words = last.before
    /\ DOMAIN words = {k \in {to_lowercase(hist[i][1]) : i \in DOMAIN hist} : C3_CallsOf(k) # {}}
    /\ \A k \in DOMAIN words :
          /\ words[k].word = hist[C3_Kept(k)][1]
          /\ words[k].seen = SumOver(C3_CallsOf(k), [i \in C3_CallsOf(k) |-> hist[i][2]])

\* "Ab" then "aB" were tallied (a tie of one uppercase character each) and the
\* earlier is stored
C3_Witness ==
    /\ Len(hist) >= 2
    /\ hist[1][1] = Str("Ab")
    /\ hist[2][1] = Str("aB")
    /\ Str("ab") \in DOMAIN words
    /\ words[Str("ab")].word = Str("Ab")
    /\ last.op = "tally_word"

\* the clusters of the text that are the word w in some letter case, alone or
\* directly followed by one period
C4_Occurrences(txt, w) ==
    LET cl == split_whitespace(txt)
    IN  Cardinality({i \in DOMAIN cl :
            \/ to_lowercase(cl[i]) = w
            \/ to_lowercase(cl[i]) = w \o <<".">>})

C4_ProbeWords == {Str("the"), Str("cat"), Str("and")}

\* C4: parse_text on a text in which a word occurs n times, in any mixture
\* of letter cases and also directly followed by a sentence-ending period,
\* yields one entry for the word with seen = n and no entry for the word with
\* the period: "The cat and the CAT and THE cat." gives "the" with seen = 3
\* and "cat" with seen = 3.
C4_ParseTextCounts ==
    (last.op = "parse_text" /\ last.before = EmptyMap) =>
        \A w \in C4_ProbeWords :
            LET n == C4_Occurrences(last.arg, w)
            IN  n > 0 =>
                    /\ w \in DOMAIN words
                    /\ words[w].seen = n
                    /\ words[w].word = w
                    /\ (w \o <<".">>) \notin DOMAIN words

\* C5: after check_dict every entry whose word is in the dictionary has the
\* Dictionary kind, every other entry keeps its kind, and the keys, the
\* stored words and the seen counts are unchanged.
C5_CheckDict ==
    last.op = "check_dict" =>
        /\ DOMAIN words = DOMAIN last.before
        /\ \A k \in DOMAIN words :
              /\ words[k].word = last.before[k].word
              /\ words[k].seen = last.before[k].seen
              /\ DictContains(dict, words[k].word) => words[k].cat = "Dictionary"
              /\ ~DictContains(dict, words[k].word) => words[k].cat = last.before[k].cat

\* check_dict has reclassified one entry and left another, not in the
\* dictionary, with its kind
C5_Witness ==
    /\ last.op = "check_dict"
    /\ \E k \in DOMAIN words :
          words[k].cat = "Dictionary" /\ last.before[k].cat # "Dictionary"
    /\ \E k \in DOMAIN words :
          ~DictContains(dict, words[k].word) /\ words[k].cat # "Dictionary"

\* C6: split_unknown_contractions is idempotent: applied again, in whatever
\* order the map yields the keys, it leaves the tally as the first application
\* left it, also when a piece of an expansion still contains an apostrophe.
C6_SplitContractionsIdempotent ==
    last.op = "split_unknown_contractions" =>
        \A keys \in Orders(contraction_keys(words, dict)) :
            split_unknown_contractions_loop(words, keys) = words

\* the pass has expanded an entry and left a piece with an apostrophe that no
\* table entry matches, which the second application visits again
C6_Witness ==
    /\ last.op = "split_unknown_contractions"
    /\ words # last.before
    /\ \E k \in contraction_keys(words, dict) : k \notin DOMAIN last.before

\* a pure compound: it contains "-" and every piece between the "-" is a
\* valid, non-empty word
C7_PureCompound(w) ==
    /\ \E i \in DOMAIN w : w[i] = "-"
    /\ \A i \in 0..Len(w) :
          \A j \in (i + 1)..(Len(w) + 1) :
              ((i = 0 \/ w[i] = "-") /\ (j = Len(w) + 1 \/ w[j] = "-")
                  /\ \A x \in (i + 1)..(j - 1) : w[x] # "-")
              => /\ j > i + 1
                 /\ \A x \in (i + 1)..(j - 1) : is_word_char(w[x])

\* the entries the pass is to remove
C7_Removed(B) == {k \in DOMAIN B : ~DictContains(dict, B[k].word) /\ C7_PureCompound(B[k].word)}

\* the number of pieces of the word w that fold to the key k
C7_PiecesAt(w, k) ==
    LET ps == SplitChar(w, "-") IN Cardinality({i \in DOMAIN ps : to_lowercase(ps[i]) = k})

\* what the removed entries add to the key k
C7_Added(B, k) ==
    SumOver(C7_Removed(B), [r \in C7_Removed(B) |-> B[r].seen * C7_PiecesAt(B[r].word, k)])

C7_PieceKeys(B) ==
    UNION {{to_lowercase(p) : p \in Chars(SplitChar(B[r].word, "-"))} : r \in C7_Removed(B)}

\* C7: split_unknown_compounds removes every entry that is a pure compound
\* outside the dictionary, adds its seen count to the entry of each piece,
\* once per occurrence of the piece, leaves every other entry unchanged, and
\* leaves no pure compound outside the dictionary.
C7_SplitCompounds ==
    last.op = "split_unknown_compounds" =>
        LET B == last.before
        IN  /\ DOMAIN words = ((DOMAIN B) \ C7_Removed(B)) \cup C7_PieceKeys(B)
            /\ \A k \in DOMAIN words :
                  /\ words[k].seen =
                        (IF k \in DOMAIN B THEN B[k].seen ELSE 0) + C7_Added(B, k)
                  /\ k \notin C7_PieceKeys(B) => words[k] = B[k]
            /\ C7_Removed(words) = {}

\* a compound seen twice, one of whose pieces occurs twice in it, has been
\* split into entries that already existed
C7_Witness ==
    /\ last.op = "split_unknown_compounds"
    /\ \E r \in C7_Removed(last.before) :
          /\ last.before[r].seen >= 2
          /\ \E k \in DOMAIN last.before : C7_PiecesAt(last.before[r].word, k) >= 1
    /\ \E r \in C7_Removed(last.before) :
          \E k \in DOMAIN words : C7_PiecesAt(last.before[r].word, k) = 2

-----------------------------------------------------------------------------
(* Claims about the lexicon *)

\* the words looked up: every form of the lexemes inserted, as written and
\* in lowercase
C8_Lookups ==
    UNION {{lx.forms[i] : i \in DOMAIN lx.forms} \cup {to_lowercase(lx.forms[i]) : i \in DOMAIN lx.forms}
           : lx \in LexiconLexemes}

\* the lexemes word_entries returns for the word
C8_Entries(w) == {word_entries(lex, w)[j] : j \in DOMAIN word_entries(lex, w)}

\* C8: after any sequence of inserts, word_entries(w) returns every inserted
\* lexeme that has a form whose lowercase equals the case-folded w, also when
\* several lexemes share the form and when a lexeme spells it with uppercase
\* letters; a later insert never removes an earlier lexeme from the index.
C8_WordEntriesComplete ==
    \A n \in DOMAIN lex.words, w \in C8_Lookups :
        (\E i \in DOMAIN lex.words[n].forms :
            to_lowercase(lex.words[n].forms[i]) = make_word(w))
        => lex.words[n] \in C8_Entries(w)

\* C9: every form F yielded by forms() is contained in the lexicon, and some
\* lexeme of word_entries(F) has F among its own forms.
C9_FormsResolve ==
    \A F \in Lexicon_forms(lex) :
        /\ Lexicon_contains(lex, F)
        /\ \E lx \in C8_Entries(F) : \E i \in DOMAIN lx.forms : lx.forms[i] = F

-----------------------------------------------------------------------------
(* Claims about the lexeme builder *)

\* the spellings of one character: the character, its ASCII transliteration
\* when it has one that differs from it, and e for the ligatures
C10_CharSpellings(c) ==
    {<<c>>}
    \cup (IF DeunicodeChar(c).some /\ DeunicodeChar(c).val # <<c>>
          THEN {DeunicodeChar(c).val} ELSE {})
    \cup (IF c \in {"U+00E6", "U+0153"} THEN {<<"e">>} ELSE {})

RECURSIVE C10_Spellings(_)
C10_Spellings(w) ==
    IF w = <<>> THEN {<<>>}
    ELSE {a \o b : a \in C10_CharSpellings(Head(w)), b \in C10_Spellings(Tail(w))}

\* the variant spellings of the lexeme's lemma, as the specification defines
\* them
C10_Variants(lx) ==
    IF \E i \in DOMAIN lx.attr : lx.attr[i] = "z"
    THEN C10_Spellings(lx.lemma) \cup {replace_z(v) : v \in C10_Spellings(lx.lemma)}
    ELSE C10_Spellings(lx.lemma)

\* C10: for every successfully parsed Lexeme, forms[0] is the lemma exactly as
\* written, and every variant spelling of the lemma occurs in forms.
C10_FormsHoldVariants ==
    (pc = "parsed" /\ lexeme.ok) =>
        /\ lexeme.val.forms # <<>>
        /\ lexeme.val.forms[1] = lexeme.val.lemma
        /\ \A v \in C10_Variants(lexeme.val) :
              \E i \in DOMAIN lexeme.val.forms : lexeme.val.forms[i] = v

\* the same, for the lemmas whose characters all have a transliteration
C10_Transliterable ==
    (pc = "parsed" /\ lexeme.ok
        /\ \A i \in DOMAIN lexeme.val.lemma : DeunicodeChar(lexeme.val.lemma[i]).some)
    => /\ lexeme.val.forms[1] = lexeme.val.lemma
       /\ \A v \in C10_Variants(lexeme.val) :
             \E i \in DOMAIN lexeme.val.forms : lexeme.val.forms[i] = v

\* C11: for every lemma L and every form F decoded from a dictionary token
\* against L, decoding the encoding of F against L gives F again.
C11_RoundTrip ==
    (pc = "irregular" /\ irr.step = "redecoded")
    => (irr.redecoded.ok /\ irr.redecoded.val = irr.decoded.val)

\* the same, for the lemmas that do not start with a hyphen
C11_RoundTripNoHyphenLemma ==
    (pc = "irregular" /\ irr.step = "redecoded" /\ ~StartsWith(irr.lemma, Str("-")))
    => (irr.redecoded.ok /\ irr.redecoded.val = irr.decoded.val)

\* a suffix-delta token whose joiner is at byte offset 3 or more and does not
\* reappear later in the lemma is stored as the same token
C11_SameToken ==
    (pc = "irregular" /\ irr.step = "redecoded" /\ irr.lemma = Str("addendum")
        /\ irr.token = Str("-da"))
    => (irr.encoded = Str("-da") /\ irr.redecoded = Ok(Str("addenda")))

-----------------------------------------------------------------------------
(* Claims about the parser *)

\* the input is well-formed UTF-8
C1_WellFormed == input.utf8

\* the characters of a well-formed input
C1_InputChars == input.chars

\* a string with each apostrophe variant replaced by U+2019
C1_Canonical(w) ==
    [i \in DOMAIN w |->
        IF w[i] \in {APOSTROPHE, MODIFIER_LETTER_APOSTROPHE, RIGHT_SINGLE_QUOTATION_MARK,
                     FULLWIDTH_APOSTROPHE}
        THEN RIGHT_SINGLE_QUOTATION_MARK ELSE w[i]]

\* the text fields of the triples yielded so far, concatenated in order
C1_YieldedText == Concat([i \in DOMAIN yielded |-> yielded[i].text])

\* next() has returned None: every triple has been yielded
C1_Finished == pc = "parser" /\ ret.called /\ ~ret.some

\* C1: for every well-formed UTF-8 input, the text fields of all triples the
\* Parser yields, concatenated in order, are the characters of the input with
\* each apostrophe variant replaced by U+2019.
C1_TextIsCanonicalInput ==
    (C1_Finished /\ C1_WellFormed) => C1_YieldedText = C1_Canonical(C1_InputChars)

\* what the Parser does yield: the characters of the input as they are, none
\* lost, duplicated, reordered or replaced
C1_TextIsInput ==
    (C1_Finished /\ C1_WellFormed) => C1_YieldedText = C1_InputChars


\* the error items among the items yielded so far
C12_Errors == {i \in DOMAIN yielded : ~yielded[i].ok}

\* C12: once the Parser has yielded an error item, every later call of next
\* returns None, reads no input byte and emits no triple.
C12_ErrorEndsIteration ==
    [][C12_Errors # {} => (~ret'.some /\ bytes' = bytes /\ yielded' = yielded)]_vars

\* an error item is the last item the Parser yields
C12_ErrorIsLast == \A i \in C12_Errors : i = Len(yielded)

\* the bytes before an ill-formed sequence are not lost: the text pending when
\* the error was met is yielded after the error item
C12_PendingTextAfterError ==
    (input.bytes = <<"a", "xFF">> /\ bytes = <<>> /\ ret.called /\ ~ret.some)
    => yielded = <<ErrorItem, Triple("Text", Str("a"), word_kind(lex, Str("a")))>>


\* the Parser has read "It's a test-case." to its end against the lexicon
\* that holds it, is, a, test and case
C13_Case ==
    /\ pc = "parser"
    /\ input.chars = Str("It's a test-case.")
    /\ lex = make_lexicon(Lexicon_new, ParserLexiconLines)
    /\ ret.called
    /\ ~ret.some

\* the items yielded that are not boundaries
C13_Words == SelectSeq(yielded, LAMBDA it : it.chunk # "Boundary")

\* the lexicon of the case holds it, is, a, test and case, and neither the
\* contraction nor the compound
C13_LexiconOfTheCase ==
    C13_Case =>
        /\ \A w \in {Str("it"), Str("is"), Str("a"), Str("test"), Str("case")} :
              Lexicon_contains(lex, w)
        /\ ~Lexicon_contains(lex, Str("It's"))
        /\ ~Lexicon_contains(lex, Str("test-case"))

\* C13: "It's a test-case." yields the words it, is, a, test, -, case, . where
\* the words of the lexicon have kind Lexicon and '-' and '.' have kind Symbol.
C13_ExpandedWords ==
    C13_Case =>
        /\ [i \in DOMAIN C13_Words |-> C13_Words[i].text]
              = <<Str("it"), Str("is"), Str("a"), Str("test"), Str("-"), Str("case"), Str(".")>>
        /\ [i \in DOMAIN C13_Words |-> C13_Words[i].kind]
              = <<"Lexicon", "Lexicon", "Lexicon", "Lexicon", "Symbol", "Lexicon", "Symbol">>

\* what the Parser yields: the contraction as one word, as it was written
C13_ContractionAsWritten ==
    C13_Case =>
        /\ [i \in DOMAIN C13_Words |-> C13_Words[i].text]
              = <<Str("It's"), Str("a"), Str("test"), Str("-"), Str("case"), Str(".")>>
        /\ [i \in DOMAIN C13_Words |-> C13_Words[i].kind]
              = <<"Lexicon", "Lexicon", "Lexicon", "Symbol", "Lexicon", "Symbol">>


\* the consonant to double at the end of a spelling, or nothing
C18_Doubled(v) ==
    IF consonant_end_repeat(v).some THEN <<consonant_end_repeat(v).val>> ELSE <<>>

\* v without its last character
C18_Root(v) == SubSeq(v, 1, Len(v) - 1)

\* present: y -> ies, s or z -> (doubled consonant) es, sh ch x -> es, else s
C18_Present(v) ==
    IF ends_in_y(v) THEN C18_Root(v) \o Str("ies")
    ELSE IF EndsWith(v, Str("s")) \/ EndsWith(v, Str("z"))
    THEN v \o C18_Doubled(v) \o Str("es")
    ELSE IF EndsWith(v, Str("sh")) \/ EndsWith(v, Str("ch")) \/ EndsWith(v, Str("x"))
    THEN v \o Str("es")
    ELSE v \o Str("s")

\* present participle: consonant doubling first, then a single trailing e
\* (not ae, ee, ie, oe, ye) is dropped, else ing is appended
C18_Participle(v) ==
    IF C18_Doubled(v) # <<>> THEN v \o C18_Doubled(v) \o Str("ing")
    ELSE IF /\ EndsWith(v, Str("e"))
            /\ ~\E p \in {"a", "e", "i", "o", "y"} : EndsWith(v, <<p, "e">>)
    THEN C18_Root(v) \o Str("ing")
    ELSE v \o Str("ing")

\* past: consonant doubling first, then e -> ed by appending d, then y -> ied,
\* else ed
C18_Past(v) ==
    IF C18_Doubled(v) # <<>> THEN v \o C18_Doubled(v) \o Str("ed")
    ELSE IF EndsWith(v, Str("e")) THEN v \o Str("d")
    ELSE IF ends_in_y(v) THEN C18_Root(v) \o Str("ied")
    ELSE v \o Str("ed")

\* the forms of a verb whose variant spellings are vs
C18_Forms(vs) ==
    [i \in 1..(4 * Len(vs)) |->
        CASE i % 4 = 1 -> vs[(i + 3) \div 4]
          [] i % 4 = 2 -> C18_Present(vs[(i + 3) \div 4])
          [] i % 4 = 3 -> C18_Participle(vs[(i + 3) \div 4])
          [] i % 4 = 0 -> C18_Past(vs[(i + 3) \div 4])]

\* C18: a Verb lexeme with no irregular forms has, for each variant spelling v
\* in turn, the forms v, present(v), present participle(v), past(v).
C18_VerbForms ==
    (pc = "parsed" /\ lexeme.ok /\ lexeme.val.word_class = "Verb"
        /\ lexeme.val.irregular_forms = <<>>)
    => With(variant_spellings(lexeme.val), LAMBDA vs : lexeme.val.forms = C18_Forms(vs))

\* 'try:V' has the forms try, tries, trying, tried
C18_Witness ==
    /\ pc = "parsed"
    /\ line = Str("try:V")
    /\ lexeme.ok
    /\ lexeme.val.word_class = "Verb"
    /\ lexeme.val.irregular_forms = <<>>
    /\ lexeme.val.forms = <<Str("try"), Str("tries"), Str("trying"), Str("tried")>>

\* the rules on sample verbs
C18_Samples ==
    pc = "parsed" =>
        /\ line = Str("stop:V") => lexeme.val.forms
              = <<Str("stop"), Str("stops"), Str("stopping"), Str("stopped")>>
        /\ line = Str("quiz:V") => lexeme.val.forms
              = <<Str("quiz"), Str("quizzes"), Str("quizzing"), Str("quizzed")>>
        /\ line = Str("wish:V") => lexeme.val.forms
              = <<Str("wish"), Str("wishes"), Str("wishing"), Str("wished")>>
        /\ line = Str("fix:V") => lexeme.val.forms
              = <<Str("fix"), Str("fixes"), Str("fixing"), Str("fixed")>>
        /\ line = Str("pass:V") => lexeme.val.forms
              = <<Str("pass"), Str("passes"), Str("passing"), Str("passed")>>
        /\ line = Str("agree:V") => lexeme.val.forms
              = <<Str("agree"), Str("agrees"), Str("agreeing"), Str("agreed")>>
        /\ line = Str("hope:V") => lexeme.val.forms
              = <<Str("hope"), Str("hopes"), Str("hoping"), Str("hoped")>>
        /\ line = Str("play:V") => lexeme.val.forms
              = <<Str("play"), Str("plays"), Str("playing"), Str("played")>>
        /\ line = Str("organize:V.z") => lexeme.val.forms
              = <<Str("organize"), Str("organizes"), Str("organizing"), Str("organized"),
                  Str("organise"), Str("organises"), Str("organising"), Str("organised")>>


\* the number of combinations of character alternatives of a word
RECURSIVE C19_Combinations(_)
C19_Combinations(w) ==
    IF w = <<>> THEN 1
    ELSE Cardinality(C10_CharSpellings(Head(w))) * C19_Combinations(Tail(w))

\* vs is the list the claim describes for the lexeme lx
C19_IsVariantList(lx, vs) ==
    LET z == \E i \in DOMAIN lx.attr : lx.attr[i] = "z"
        n == IF z THEN Len(vs) \div 2 ELSE Len(vs)
    IN  /\ vs # <<>>
        /\ vs[1] = lx.lemma
        /\ n = C19_Combinations(lx.lemma)
        /\ {vs[i] : i \in 1..n} = C10_Spellings(lx.lemma)
        /\ z => /\ Len(vs) = 2 * n
                /\ \A i \in 1..n : vs[n + i] = replace_z(vs[i])

\* C19: variant_spellings returns the lemma first, then one variant for each
\* combination of character alternatives, and with the attribute z the whole
\* list again with every z replaced by s.
C19_VariantSpellings ==
    (pc = "parsed" /\ lexeme.ok)
    => With(variant_spellings(lexeme.val), LAMBDA vs : C19_IsVariantList(lexeme.val, vs))

\* the same, for the lemmas whose characters all have a transliteration
C19_TransliterableVariants ==
    (pc = "parsed" /\ lexeme.ok
        /\ \A i \in DOMAIN lexeme.val.lemma : DeunicodeChar(lexeme.val.lemma[i]).some)
    => With(variant_spellings(lexeme.val), LAMBDA vs : C19_IsVariantList(lexeme.val, vs))

\* the two examples of the claim
C19_Examples ==
    (pc = "parsed" /\ lexeme.ok) =>
        /\ line = Str("caf") \o <<"U+00E9">> \o Str(":N")
              => variant_spellings(lexeme.val)
                    = <<Str("caf") \o <<"U+00E9">>, Str("cafe")>>
        /\ line = Str("an") \o <<"U+00E6">> \o Str("sthetize:V.z")
              => variant_spellings(lexeme.val)
                    = <<Str("an") \o <<"U+00E6">> \o Str("sthetize"),
                        Str("anaesthetize"), Str("anesthetize"),
                        Str("an") \o <<"U+00E6">> \o Str("sthetise"),
                        Str("anaesthetise"), Str("anesthetise")>>

-----------------------------------------------------------------------------
(* Claims about the callback tokenizer *)

\* parse_text has returned and the Parser has returned None
C21_BothFinished ==
    /\ pc = "chunk"
    /\ handler.result \in {"Ok", "Err"}
    /\ ret.called
    /\ ~ret.some

\* the (chunk kind, text) pairs of the triples the Parser has yielded
C21_ParserPairs ==
    With(SelectSeq(yielded, LAMBDA it : it.ok),
         LAMBDA oks : [i \in DOMAIN oks |-> HandlerCall(oks[i].chunk, oks[i].text)])

\* C21: for every input, the sequence of handler calls text/symbol/boundary
\* with their strings that chunk::parse_text makes equals the sequence of
\* (chunk kind, text) pairs the Parser yields for the same input.
C21_CallbacksEqualParser == C21_BothFinished => handler.calls = C21_ParserPairs

\* a string as canonical_char of chunk.rs spells it
C21_Canonical(w) ==
    Concat([i \in DOMAIN w |->
                IF canonical_char(w[i]).some THEN canonical_char(w[i]).val ELSE <<w[i]>>])

\* what the two tokenizers share on a well-formed input: the characters of
\* the strings handed to the handler are those of the texts the Parser
\* yields, in the spelling of canonical_char
C21_SameCharacters ==
    (C21_BothFinished /\ input.utf8)
    => Concat([i \in DOMAIN handler.calls |-> handler.calls[i].text])
          = C21_Canonical(Concat([i \in DOMAIN yielded |-> yielded[i].text]))

\* the two agree on a well-formed input in which nothing is respelled and
\* nothing is split: no apostrophe, no ligature, no hyphen inside a text and
\* no text of two characters that ends in a dot
C21_EqualOnPlainText ==
    (/\ C21_BothFinished
     /\ input.utf8
     /\ \A i \in DOMAIN input.chars : ~canonical_char(input.chars[i]).some
     /\ \A i \in DOMAIN handler.calls :
           /\ handler.calls[i].chunk = "Text" => ~ContainsChar(handler.calls[i].text, "-")
           /\ ~(i < Len(handler.calls)
                /\ Len(handler.calls[i].text) = 1
                /\ handler.calls[i].chunk = "Text"
                /\ is_uppercase(handler.calls[i].text[1])
                /\ handler.calls[i + 1] = HandlerCall("Symbol", <<".">>)))
    => handler.calls = C21_ParserPairs

\* a hyphenated word that the Parser splits and parse_text hands over whole
C21_CompoundCase ==
    /\ C21_BothFinished
    /\ input.chars = Str("a-a")
    /\ lex = Lexicon_new
    /\ handler.calls = <<HandlerCall("Text", Str("a-a"))>>
    /\ C21_ParserPairs = <<HandlerCall("Text", Str("a")), HandlerCall("Symbol", Str("-")),
                           HandlerCall("Text", Str("a"))>>

-----------------------------------------------------------------------------
(* Claims about the two classifiers *)

\* the Category that corresponds to a Kind
C22_Category(k) ==
    CASE k = "Lexicon" -> "Dictionary"
      [] k = "Symbol" -> "Letter"
      [] OTHER -> k

\* C22: for every word that the tally accepts, the category the tally stores
\* for it, Category::from(word), is the category that corresponds to
\* Kind::from(word).
C22_CategoryIsKind ==
    (pc = "classified" /\ kind # "none")
    => \A key \in DOMAIN words :
          words[key].word = word => words[key].cat = C22_Category(kind)

\* the claim's examples: 'IV' is Roman for both, '3rd' is Ordinal for
\* Kind::from and Number for the tally
C22_Examples ==
    /\ (pc = "classified" /\ word = Str("IV") /\ words # EmptyMap)
       => (kind = "Roman" /\ words[Str("iv")].cat = "Roman")
    /\ (pc = "classified" /\ word = Str("3rd") /\ words # EmptyMap)
       => (kind = "Ordinal" /\ words[Str("3rd")].cat = "Number")

\* the two agree on the words of ASCII letters and digits other than the
\* bare suffixes 1st, 2nd and 3rd
C22_AgreeOnAsciiWords ==
    (/\ pc = "classified"
     /\ \A i \in DOMAIN word : word[i] \in AsciiLower \cup AsciiUpper \cup AsciiDigit
     /\ word \notin {ORD_SUFFIXES[k] : k \in 1..6})
    => \A key \in DOMAIN words : words[key].cat = C22_Category(kind)

\* both classifiers have been applied to '3rd'
C22_OrdinalCase == pc = "classified" /\ word = Str("3rd") /\ words # EmptyMap

-----------------------------------------------------------------------------
(* Claims about the Parser's texts *)

\* the apostrophes of a string are all U+2019
C23_CanonicalApostrophes(w) ==
    \A i \in DOMAIN w : is_apostrophe(w[i]) => w[i] = RIGHT_SINGLE_QUOTATION_MARK

\* C23: every apostrophe character that the Parser places in an emitted Text
\* chunk is U+2019: an input apostrophe written as U+0027, U+02BC or U+FF07
\* is replaced by U+2019 before it is appended to the pending text.
C23_TextApostrophesCanonical ==
    /\ C23_CanonicalApostrophes(text)
    /\ \A i \in DOMAIN yielded :
          (yielded[i].ok /\ yielded[i].chunk = "Text")
          => C23_CanonicalApostrophes(yielded[i].text)

\* what the Parser does: the pending text is the input as read, so "don't"
\* written with U+02BC is yielded with U+02BC
C23_TextAsRead ==
    (/\ pc = "parser"
     /\ input.chars = Str("don") \o <<MODIFIER_LETTER_APOSTROPHE>> \o Str("t")
     /\ ret.called
     /\ ~ret.some)
    => [i \in DOMAIN yielded |-> yielded[i].text]
          = <<Str("don") \o <<MODIFIER_LETTER_APOSTROPHE>> \o Str("t")>>

\* the callback tokenizer of chunk.rs does replace them: no string handed to
\* the handler holds an apostrophe other than U+2019
C23_CallbackApostrophesCanonical ==
    /\ C23_CanonicalApostrophes(handler.chunk)
    /\ \A i \in DOMAIN handler.calls :
          handler.calls[i].chunk = "Text" => C23_CanonicalApostrophes(handler.calls[i].text)


\* the pending text that was flushed
C24_Pending == input.chars

\* the text ends in '.', holds exactly one '.', and has more than two characters
C24_FinalDot ==
    /\ Len(C24_Pending) > 2
    /\ Last(C24_Pending) = "."
    /\ Cardinality({i \in DOMAIN C24_Pending : C24_Pending[i] = "."}) = 1

\* a sequence of ASCII uppercase letters and dots, of two characters or more,
\* that is no roman numeral
C24_DottedUppercase(w) ==
    /\ Len(w) >= 2
    /\ \E i \in DOMAIN w : w[i] = "."
    /\ \A i \in DOMAIN w : w[i] \in AsciiUpper \cup {"."}

C24_WitnessSplit ==
    /\ pc = "pushed"
    /\ C24_Pending = Str("AS.")
    /\ chunks = <<Triple("Text", Str("AS"), "Acronym"), Triple("Symbol", <<".">>, "Symbol")>>

\* the Parser on "U.S.A. went to NATO": U.S.A. is one Text chunk of kind
\* Acronym, and so is NATO
C24_Example ==
    (/\ pc = "parser"
     /\ input.chars = Str("U.S.A. went to NATO")
     /\ lex = Lexicon_new
     /\ ret.called
     /\ ~ret.some)
    => /\ yielded[1] = Triple("Text", Str("U.S.A."), "Acronym")
       /\ yielded[Len(yielded)] = Triple("Text", Str("NATO"), "Acronym")
       /\ [i \in DOMAIN yielded |-> yielded[i].text]
             = <<Str("U.S.A."), Str(" "), Str("went"), Str(" "), Str("to"), Str(" "),
                 Str("NATO")>>


\* the flushed text is split into its compound pieces: it has more than one
\* character, a hyphen or an apostrophe, and is not in the lexicon
C25_IsSplit ==
    /\ Len(C24_Pending) > 1
    /\ ~Lexicon_contains(lex, C24_Pending)
    /\ \E i \in DOMAIN C24_Pending : C24_Pending[i] = "-" \/ is_apostrophe(C24_Pending[i])

\* the non-empty pieces between the hyphens of the flushed text
C25_Pieces == SelectSeq(SplitChar(C24_Pending, "-"), LAMBDA p : p # <<>>)

\* the non-empty pieces of the contraction expansion of a word
C25_Expansion(w) == SelectSeq(contractions_split(w), LAMBDA p : p # <<>>)

\* the kind of one piece of an expansion: Lexicon, or what the classifier says
C25_PieceKind(p) == IF Lexicon_contains(lex, p) THEN "Lexicon" ELSE KindFrom(p)

\* the kind the claim gives a compound piece that holds an apostrophe
C25_Kind(w) ==
    IF Lexicon_contains(lex, w) THEN "Lexicon"
    ELSE With(C25_Expansion(w), LAMBDA ex :
             IF \E i \in DOMAIN ex : C25_PieceKind(ex[i]) = "Unknown" THEN "Unknown"
             ELSE IF ex = <<>> THEN "Unknown"
             ELSE C25_PieceKind(ex[Len(ex)]))

\* C25: a compound piece that holds an apostrophe is Lexicon when it is in
\* the lexicon; otherwise it is Unknown if a non-empty piece of its
\* contraction expansion is Unknown or if the expansion has no non-empty
\* piece, and else it has the kind of the last non-empty piece.
C25_ContractionKind ==
    (pc = "pushed" /\ C25_IsSplit) =>
        With(SelectSeq(chunks, LAMBDA it : it.chunk = "Text"), LAMBDA items :
            /\ Len(items) = Len(C25_Pieces)
            /\ \A i \in DOMAIN items :
                  /\ items[i].text = C25_Pieces[i]
                  /\ (\E j \in DOMAIN items[i].text : is_apostrophe(items[i].text[j]))
                     => items[i].kind = C25_Kind(items[i].text))

\* ASn't against the sample lexicon: the expansion is AS, not, of kinds
\* Acronym and Lexicon, and the word has the kind of the last
C25_Witness ==
    /\ pc = "pushed"
    /\ C24_Pending = Str("ASn't")
    /\ Lexicon_contains(lex, Str("not"))
    /\ C25_Expansion(C24_Pending) = <<Str("AS"), Str("not")>>
    /\ chunks = <<Triple("Text", Str("ASn't"), "Lexicon")>>

\* an Unknown piece makes the word Unknown: It's against the empty lexicon
C25_WitnessUnknown ==
    /\ pc = "pushed"
    /\ C24_Pending = Str("It's")
    /\ lex = Lexicon_new
    /\ C25_Expansion(C24_Pending) = <<Str("is"), Str("it")>>
    /\ chunks = <<Triple("Text", Str("It's"), "Unknown")>>

\* an expansion without a non-empty piece: the piece 'S of A-'S
C25_WitnessEmpty ==
    /\ pc = "pushed"
    /\ C24_Pending = Str("A-'S")
    /\ C25_Expansion(Str("'S")) = <<>>
    /\ Len(chunks) = 3
    /\ chunks[3] = Triple("Text", Str("'S"), "Unknown")

\* a piece of the lexicon is Lexicon: o'clock in a-o'clock
C25_WitnessLexicon ==
    /\ pc = "pushed"
    /\ C24_Pending = Str("a-o'clock")
    /\ Len(chunks) = 3
    /\ chunks[3] = Triple("Text", Str("o'clock"), "Lexicon")


\* the characters of a well-formed input that are encoded by the bytes bs
\* still to be read
C26_Rest(bs) ==
    With(CHOOSE k \in 0..Len(input.chars) :
             Utf8(SubSeq(input.chars, k + 1, Len(input.chars))) = bs,
         LAMBDA k : SubSeq(input.chars, k + 1, Len(input.chars)))

\* the bytes to be read are the encoding of the rest of the characters
C26_AtCharacter(bs) ==
    \E k \in 0..Len(input.chars) : Utf8(SubSeq(input.chars, k + 1, Len(input.chars))) = bs

\* a call of next() on a non-empty queue: no byte is read, the first queued
\* item is returned and the others stay queued in their order
C26_FromQueue ==
    chunks # <<>> =>
        /\ bytes' = bytes
        /\ text' = text
        /\ ret'.some
        /\ ret'.read = 0
        /\ ret'.item = Head(chunks)
        /\ chunks' = Tail(chunks)
        /\ yielded' = Append(yielded, Head(chunks))

\* a call of next() on an empty queue and a well-formed input: the characters
\* cs read in the call end with the first one that is not appended to the
\* pending text, or with the input; the items that character has queued are
\* spelled by cs, in order, and the first of them is returned
C26_FromInput ==
    (chunks = <<>> /\ input.utf8) =>
        /\ C26_AtCharacter(bytes')
        /\ ret'.read = Len(bytes) - Len(bytes')
        /\ With(SubSeq(C26_Rest(bytes), 1, Len(C26_Rest(bytes)) - Len(C26_Rest(bytes'))),
                LAMBDA cs :
                    /\ \A i \in 1..(Len(cs) - 1) : Appends(SubSeq(cs, 1, i - 1), cs[i])
                    /\ (cs # <<>> /\ Appends(SubSeq(cs, 1, Len(cs) - 1), cs[Len(cs)]))
                       => bytes' = <<>>
                    /\ IF cs = <<>>
                       THEN ~ret'.some /\ chunks' = <<>> /\ yielded' = yielded /\ bytes = <<>>
                       ELSE /\ ret'.some
                            /\ yielded' = Append(yielded, ret'.item)
                            /\ \A i \in DOMAIN chunks' : chunks'[i].ok
                            /\ Concat([i \in 1..(Len(chunks') + 1) |->
                                          IF i = 1 THEN ret'.item.text ELSE chunks'[i - 1].text])
                                  = cs)

\* C26: next() reads input bytes only when the output queue is empty, stops
\* reading as soon as one input character has caused at least one triple to
\* be queued or the input ends, and returns the queued triples one per call
\* in the order they were produced, the order of their text in the input.
C26_LazyFifo == [][C26_FromQueue /\ C26_FromInput]_vars

\* the call that has read "It's " from "It's a test-case." and stopped at the
\* space: It's has been returned, the space is queued, 12 bytes are unread
C26_Witness ==
    /\ pc = "parser"
    /\ input.chars = Str("It's a test-case.")
    /\ ret.called
    /\ ret.read = 5
    /\ ret.item.text = Str("It's")
    /\ Len(chunks) = 1
    /\ chunks[1].text = Str(" ")
    /\ Len(bytes) = 12

\* a call served from the queue: the space is returned and no byte is read
C26_WitnessQueued ==
    /\ pc = "parser"
    /\ input.chars = Str("It's a test-case.")
    /\ ret.called
    /\ ret.read = 0
    /\ ret.item.text = Str(" ")
    /\ Len(bytes) = 12

-----------------------------------------------------------------------------
(* Claims about the character splitter *)

\* the characters whose encoding is the byte sequence code
C27_Decoded(code) == {c \in CharAlphabet \cup {GRINNING_FACE} : Utf8Bytes(c) = code}

\* the lengths n of the prefixes of bs, of at most four bytes, that are the
\* encoding of a character
C27_Formed(bs) ==
    {n \in 1..4 : n <= Len(bs) /\ C27_Decoded(SubSeq(bs, 1, n)) # {}}

C27_Min(S) == CHOOSE n \in S : \A m \in S : n <= m

\* one call of next_char: None exactly when no byte remains; else Ok(c) with
\* the bytes of c consumed, for the first prefix that encodes a character;
\* else the error, with four bytes consumed, or all that were left
C27_Call ==
    /\ ret'.some <=> bytes # <<>>
    /\ bytes = <<>> => bytes' = <<>>
    /\ (bytes # <<>> /\ C27_Formed(bytes) # {}) =>
          With(C27_Min(C27_Formed(bytes)), LAMBDA n :
              /\ ret'.item.ok
              /\ ret'.item.c \in C27_Decoded(SubSeq(bytes, 1, n))
              /\ bytes' = SubSeq(bytes, n + 1, Len(bytes)))
    /\ (bytes # <<>> /\ C27_Formed(bytes) = {}) =>
          /\ ~ret'.item.ok
          /\ bytes' = SubSeq(bytes, (IF Len(bytes) < 4 THEN Len(bytes) ELSE 4) + 1, Len(bytes))

\* a well-formed input yields its characters in order and no error, a
\* character a call
C27_WellFormed ==
    (pc = "chars" /\ input.utf8) =>
        /\ \A i \in DOMAIN yielded : yielded[i] = OkChar(input.chars[i])
        /\ bytes = Utf8(SubSeq(input.chars, Len(yielded) + 1, Len(input.chars)))
        /\ (ret.called /\ ~ret.some) => Len(yielded) = Len(input.chars)
        /\ (ret.called /\ ret.some) => ret.read = Len(Utf8Bytes(input.chars[Len(yielded)]))

\* C27: next_char returns None exactly when no input bytes remain; otherwise
\* it returns Ok(c) as soon as the bytes consumed in the call form the UTF-8
\* encoding of c, and the error when four bytes have been consumed, or the
\* input ended, without forming a character.  A well-formed input yields
\* exactly its characters in order with no error, each call consuming exactly
\* one character's bytes.
C27_NextChar == [][pc = "chars" => C27_Call]_vars /\ []C27_WellFormed

\* the error after four bytes that form no character, the fifth left unread
C27_Witness ==
    /\ pc = "chars"
    /\ input.bytes = <<"x80", "a", "a", "a", "a">>
    /\ yielded = <<ErrChar>>
    /\ ret.read = 4
    /\ bytes = <<"a">>

\* the error at the end of the input, inside a character
C27_WitnessTruncated ==
    /\ pc = "chars"
    /\ input.bytes = <<"a", "xE2", "x80">>
    /\ yielded = <<OkChar("a"), ErrChar>>
    /\ ret.read = 2
    /\ bytes = <<>>

\* a well-formed input read to its end
C27_WitnessWellFormed ==
    /\ pc = "chars"
    /\ input.chars = <<"a", "U+00E9", RIGHT_SINGLE_QUOTATION_MARK>>
    /\ yielded = <<OkChar("a"), OkChar("U+00E9"), OkChar(RIGHT_SINGLE_QUOTATION_MARK)>>
    /\ ret.called
    /\ ~ret.some

\* a character formed by the fourth byte consumed
C27_WitnessFourBytes ==
    /\ pc = "chars"
    /\ input.chars = <<"a", GRINNING_FACE, "U+00E9", GRINNING_FACE>>
    /\ yielded = <<OkChar("a"), OkChar(GRINNING_FACE)>>
    /\ ret.read = 4

-----------------------------------------------------------------------------
(* Claims about the entries of the tally *)

\* C28: in every reachable WordTally state each map key is the lowercase of
\* its entry's stored word, every stored word is a valid non-empty word, and
\* every seen count is at least 1.
C28_EntriesWellFormed ==
    \A key \in DOMAIN words :
        /\ key = to_lowercase(words[key].word)
        /\ words[key].word # <<>>
        /\ \A i \in DOMAIN words[key].word : is_word_char(words[key].word[i])
        /\ words[key].seen >= 1

\* the possessive dog's has been split: its empty token was dropped and dog
\* is the only entry
C28_Witness ==
    /\ last.op = "split_unknown_contractions"
    /\ DOMAIN last.before = {StrQ("dog's")}
    /\ DOMAIN words = {Str("dog")}
    /\ words[Str("dog")].seen >= 1

\* an entry whose stored word was replaced by a variant with fewer uppercase
\* characters, under the same key: The, then the
C28_WitnessReplaced ==
    /\ last.op = "parse_text"
    /\ last.before = EmptyMap
    /\ last.arg = Str("The cat and the CAT and THE cat.")
    /\ words[Str("the")] = [seen |-> 3, word |-> Str("the"), cat |-> "Unknown"]


\* the tally a pass leaves does not depend on the order in which it visits
\* the keys it collected
C29_CompoundsAnyOrder ==
    last.op = "split_unknown_compounds" =>
        \A keys \in Orders(compound_keys(last.before, dict)) :
            split_unknown_compounds_loop(last.before, keys) = words

C29_ContractionsAnyOrder ==
    last.op = "split_unknown_contractions" =>
        \A keys \in Orders(contraction_keys(last.before, dict)) :
            split_unknown_contractions_loop(last.before, keys) = words

\* C29: the tally produced by split_unknown_compounds and by
\* split_unknown_contractions is deterministic: the keys, seen counts, stored
\* surface words and kinds do not depend on the order in which the matching
\* entries are visited, also when pieces of two removed entries fold to the
\* same key with equal uppercase counts.
C29_Deterministic == C29_CompoundsAnyOrder /\ C29_ContractionsAnyOrder

\* split_unknown_compounds on the tally of "Ab-x aB-y": the pieces Ab and aB
\* fold to the key ab with one uppercase character each, and the entry is
\* Ab, Proper, or aB, Unknown, as the order has it
C29_TieCase ==
    (/\ last.op = "split_unknown_compounds"
     /\ last.before = parse_text(EmptyMap, Str("Ab-x aB-y"))
     /\ dict = {})
    => /\ DOMAIN words = {Str("ab"), Str("x"), Str("y")}
       /\ words[Str("ab")] \in {[seen |-> 2, word |-> Str("Ab"), cat |-> "Proper"],
                                 [seen |-> 2, word |-> Str("aB"), cat |-> "Unknown"]}
       /\ split_unknown_compounds_loop(last.before, <<Str("ab-x"), Str("ab-y")>>)[Str("ab")].word
             = Str("Ab")
       /\ split_unknown_compounds_loop(last.before, <<Str("ab-y"), Str("ab-x")>>)[Str("ab")].word
             = Str("aB")

\* split_unknown_contractions on the tally of "don't DON'T's": the piece
\* DON'T of the second entry folds to the key of the first.  Visited after
\* it, the piece makes a new entry; visited before it, the piece is added to
\* the first entry and split with it.  The keys and the counts differ.
C29_PieceIsKeyCase ==
    (/\ last.op = "split_unknown_contractions"
     /\ last.before = parse_text(EmptyMap, Str("don't DON'T's"))
     /\ dict = {})
    => /\ split_unknown_contractions_loop(last.before, <<StrQ("don't"), StrQ("don't's")>>)
             = (Str("do") :> [seen |-> 1, word |-> Str("do"), cat |-> "Unknown"]
                @@ Str("not") :> [seen |-> 1, word |-> Str("not"), cat |-> "Unknown"]
                @@ StrQ("don't") :> [seen |-> 1, word |-> StrQ("DON'T"), cat |-> "Unknown"])
       /\ split_unknown_contractions_loop(last.before, <<StrQ("don't's"), StrQ("don't")>>)
             = (Str("do") :> [seen |-> 2, word |-> Str("do"), cat |-> "Unknown"]
                @@ Str("not") :> [seen |-> 2, word |-> Str("not"), cat |-> "Unknown"])
       /\ words \in {split_unknown_contractions_loop(last.before, keys) :
                        keys \in Orders(contraction_keys(last.before, dict))}

-----------------------------------------------------------------------------
(* Claims about the forms index *)

\* every index stored in the forms index refers to an existing lexeme that
\* has a form folding to the key
C30_IndexRefersToLexeme ==
    \A key \in DOMAIN lex.forms :
        \A j \in DOMAIN lex.forms[key] :
            /\ lex.forms[key][j] + 1 \in DOMAIN lex.words
            /\ \E i \in DOMAIN lex.words[lex.forms[key][j] + 1].forms :
                  to_lowercase(lex.words[lex.forms[key][j] + 1].forms[i]) = key

\* word_entries(w) lists each lexeme at most once: the indices it follows
\* are distinct
C30_EntriesListedOnce ==
    \A w \in C8_Lookups :
        make_word(w) \in DOMAIN lex.forms =>
            \A i, j \in DOMAIN lex.forms[make_word(w)] :
                lex.forms[make_word(w)][i] = lex.forms[make_word(w)][j] => i = j

\* C30: after any sequence of Lexicon::insert calls, every index stored in
\* the forms index refers to an existing lexeme that has a form folding to
\* that key, and word_entries(w) lists each lexeme at most once, also when a
\* lexeme's forms repeat the same string.
C30_IndexSound == C30_IndexRefersToLexeme /\ C30_EntriesListedOnce

\* the lexicon that holds only as:C.z: the lemma has no z, its two variant
\* spellings are the same form, the index holds the lexeme twice under as,
\* and word_class of hilite.rs finds two entries and gives no class
C30_RepeatedVariantCase ==
    lex.words = <<Lexeme_try_from(Str("as:C.z")).val>>
    => /\ lex.words[1].forms = <<Str("as"), Str("as")>>
       /\ lex.forms = (Str("as") :> <<0, 0>>)
       /\ Len(word_entries(lex, Str("as"))) = 2
       /\ hilite_word_class(lex, Str("as")) = None

\* the lexicon that holds only say:V,said,said: two inflections coincide
C30_RepeatedInflectionCase ==
    lex.words = <<Lexeme_try_from(Str("say:V,said,said")).val>>
    => /\ lex.forms = (Str("say") :> <<0>> @@ Str("said") :> <<0, 0>>)
       /\ hilite_word_class(lex, Str("say")) = Some("Verb")
       /\ hilite_word_class(lex, Str("said")) = None

=============================================================================
